---- MODULE Spec2Model ----
(***************************************************************************)
(* Focus monitoring of jie0102/cherry-studio: the Redux slice focusMonitor *)
(* (store/focusMonitor.ts), the scheduler FocusMonitoringService and the   *)
(* active-application provider SystemAppService.getActiveApp.              *)
(*                                                                         *)
(* JavaScript runs every callback to completion, so one action is one      *)
(* synchronous stretch of code: from a call or a callback's start to the   *)
(* next await.  The dispatches performCheck makes after its await are      *)
(* single steps (run.pc names the next one), because every dispatch        *)
(* publishes a store state to the subscribers; no other callback runs      *)
(* between them.                                                           *)
(*                                                                         *)
(* Text is a sequence of one-character strings: "Code" is                  *)
(* <<"C","o","d","e">>.  The empty sequence stands for null / undefined    *)
(* where the source has an optional string (activeApp?, match).            *)
(***************************************************************************)
EXTENDS Integers, Sequences, FiniteSets, TLC

\* Bounds of the model.
MaxClock == 3
MaxLoops == 2
MaxManual == 1
MaxAppends == 150
\* interval ids setInterval hands out, and work sessions recorded in the store
MaxIntervals == 2
MaxSessions == 3
\* calls of Tesseract.createWorker
MaxWorkers == 3

\* ------------------------------------------------------------------ text

\* Application names the model draws its inputs from.
WeChatExe == <<"W","e","C","h","a","t",".","e","x","e">>
WeChat == <<"W","e","C","h","a","t">>
CodeName == <<"C","o","d","e">>
VSCode == <<"v","s","c","o","d","e">>
Unknown == <<"U","n","k","n","o","w","n">>
SomeTask == <<"d","o","c","s">>
Blank == <<" ">>

\* Names a caller of AppNameNormalizer scores and normalizes.
Code == <<"c","o","d","e">>
VisualStudioCode == <<"v","i","s","u","a","l"," ","s","t","u","d","i","o"," ","c","o","d","e">>
Studio == <<"s","t","u","d","i","o">>
GoogleChromeExe == <<"G","o","o","g","l","e"," ","C","h","r","o","m","e",".","e","x","e">>
Chrome == <<"c","h","r","o","m","e">>
Bangs == <<"!","!">>
Edge == <<"e","d","g","e">>
EdgeDriver == <<"E","d","g","e","D","r","i","v","e","r">>
OneNotePad == <<"O","n","e"," ","N","o","t","e"," ","P","a","d">>
PadNoteOne == <<"P","a","d","N","o","t","e","O","n","e">>
Slack == <<"S","l","a","c","k">>
Slakc == <<"S","l","a","k","c">>
FooAppExe == <<"F","o","o",".","a","p","p",".","e","x","e">>
Odd == <<"_","x","-","y"," "," ","Z",".","M","S","I">>
SlackExe == <<"s","l","a","c","k",".","e","x","e">>
ScoreNames ==
  { <<>>, Code, VisualStudioCode, Studio, GoogleChromeExe, Chrome, Bangs, Edge,
    EdgeDriver, OneNotePad, PadNoteOne, Slack, Slakc, FooAppExe, Odd, SlackExe }

\* Names and lists a caller of findBestMatch, findAllMatches and suggestAppNames
\* passes; OneLetter is a partial input of one character.
MaxCandidates == 3
OneLetter == <<"c">>
MatchTargets == {<<>>, OneLetter, Code, Slack, Bangs}
MatchCandidates == {VisualStudioCode, Studio, Slakc}
CandidateLists == UNION {[1..n -> MatchCandidates] : n \in 0..MaxCandidates}
\* 0.3 and 0.6, as reduced fractions
Thresholds == {<<3, 10>>, <<3, 5>>}
SuggestionLimits == {1, 5}

\* What the IPC call window.api.system.getActiveWindow can report as owner.
ActiveNames == {WeChatExe, CodeName}
\* What the page offers to add to the two lists.
AllowedChoices == {VSCode, WeChat}
BlockedChoices == {WeChat}
\* The lists a user can have built from these with the page before a run.
AllowedLists == {<<>>, <<VSCode>>, <<WeChat>>, <<VSCode, WeChat>>, <<WeChat, VSCode>>}
BlockedLists == {<<>>, <<WeChat>>}
TaskChoices == {<<>>, Blank, SomeTask}
FrequencyChoices == {60, 0}

IsWhite(c) == c \in {" ", "\t", "\n", "\r"}

RECURSIVE TrimStart(_)
TrimStart(s) == IF s # <<>> /\ IsWhite(Head(s)) THEN TrimStart(Tail(s)) ELSE s

RECURSIVE TrimEnd(_)
TrimEnd(s) ==
  IF s # <<>> /\ IsWhite(s[Len(s)]) THEN TrimEnd(SubSeq(s, 1, Len(s) - 1)) ELSE s

\* String.prototype.trim
Trim(s) == TrimEnd(TrimStart(s))

\* Array.prototype.includes / filter(x => x # a) on a list of names
Includes(list, a) == \E i \in 1..Len(list) : list[i] = a
Without(list, a) == SelectSeq(list, LAMBDA x : x # a)

\* -------------------------------- AppNameNormalizer (AIAnalysisService.ts)

\* A JavaScript number that the scorer computes is kept exact, as a reduced
\* fraction <<numerator, denominator>> with a positive denominator.
RECURSIVE GCD(_, _)
GCD(a, b) == IF b = 0 THEN a ELSE GCD(b, a % b)

Abs(n) == IF n < 0 THEN -n ELSE n

Rat(n, d) == LET g == GCD(Abs(n), d) IN <<n \div g, d \div g>>

RatAdd(x, y) == Rat(x[1] * y[2] + y[1] * x[2], x[2] * y[2])
RatSub(x, y) == Rat(x[1] * y[2] - y[1] * x[2], x[2] * y[2])
RatMul(x, y) == Rat(x[1] * y[1], x[2] * y[2])
RatGt(x, y) == x[1] * y[2] > y[1] * x[2]
RatGe(x, y) == x[1] * y[2] >= y[1] * x[2]

Max(a, b) == IF a > b THEN a ELSE b
Min(a, b) == IF a < b THEN a ELSE b

\* The threshold 0.6 of findBestMatch and of the two list checks.
Threshold == Rat(6, 10)

UpperCase ==
  <<"A","B","C","D","E","F","G","H","I","J","K","L","M",
    "N","O","P","Q","R","S","T","U","V","W","X","Y","Z">>
LowerCase ==
  <<"a","b","c","d","e","f","g","h","i","j","k","l","m",
    "n","o","p","q","r","s","t","u","v","w","x","y","z">>
Digits == {"0","1","2","3","4","5","6","7","8","9"}

IsUpper(c) == \E i \in DOMAIN UpperCase : UpperCase[i] = c
IsLower(c) == \E i \in DOMAIN LowerCase : LowerCase[i] = c

\* the class \w of a JavaScript regular expression
IsWordChar(c) == IsUpper(c) \/ IsLower(c) \/ c \in Digits \/ c = "_"

ToLowerChar(c) ==
  IF IsUpper(c) THEN LowerCase[CHOOSE i \in DOMAIN UpperCase : UpperCase[i] = c] ELSE c

ToLowerCase(s) == [i \in 1..Len(s) |-> ToLowerChar(s[i])]

\* replace(/\.(exe|app|dmg|msi)$/i, '') on lower-cased text
Extensions ==
  { <<".","e","x","e">>, <<".","a","p","p">>, <<".","d","m","g">>, <<".","m","s","i">> }

StripExtension(s) ==
  IF Len(s) >= 4 /\ SubSeq(s, Len(s) - 3, Len(s)) \in Extensions
  THEN SubSeq(s, 1, Len(s) - 4)
  ELSE s

\* replace(/[^\w\s-]/g, ' ')
ReplaceSpecial(s) ==
  [i \in 1..Len(s) |->
     IF IsWordChar(s[i]) \/ IsWhite(s[i]) \/ s[i] = "-" THEN s[i] ELSE " "]

\* replace(/\s+/g, ' ')
RECURSIVE CollapseSpaces(_)
CollapseSpaces(s) ==
  IF s = <<>> THEN <<>>
  ELSE IF IsWhite(Head(s)) THEN <<" ">> \o CollapseSpaces(TrimStart(Tail(s)))
  ELSE <<Head(s)>> \o CollapseSpaces(Tail(s))

\* Mutant of normalizeBasic: special characters are kept.
normalizeBasic_KeepSpecial(name) ==
  IF name = <<>> THEN <<>>
  ELSE Trim(CollapseSpaces(StripExtension(ToLowerCase(name))))

normalizeBasic(name) ==
  IF name = <<>> THEN <<>>
  ELSE Trim(CollapseSpaces(ReplaceSpecial(StripExtension(ToLowerCase(name)))))

APP_ALIASES ==
  { <<<<"c","h","r","o","m","e">>, <<"g","o","o","g","l","e"," ","c","h","r","o","m","e">>>>,
    <<<<"f","i","r","e","f","o","x">>, <<"m","o","z","i","l","l","a"," ","f","i","r","e","f","o","x">>>>,
    <<<<"s","a","f","a","r","i">>, <<"s","a","f","a","r","i">>>>,
    <<<<"e","d","g","e">>, <<"m","i","c","r","o","s","o","f","t"," ","e","d","g","e">>>>,
    <<<<"b","r","a","v","e">>, <<"b","r","a","v","e"," ","b","r","o","w","s","e","r">>>>,
    <<<<"v","s","c","o","d","e">>, <<"v","i","s","u","a","l"," ","s","t","u","d","i","o"," ","c","o","d","e">>>>,
    <<<<"c","o","d","e">>, <<"v","i","s","u","a","l"," ","s","t","u","d","i","o"," ","c","o","d","e">>>>,
    <<<<"s","u","b","l","i","m","e">>, <<"s","u","b","l","i","m","e"," ","t","e","x","t">>>>,
    <<<<"a","t","o","m">>, <<"a","t","o","m">>>>,
    <<<<"w","e","b","s","t","o","r","m">>, <<"w","e","b","s","t","o","r","m">>>>,
    <<<<"p","h","p","s","t","o","r","m">>, <<"p","h","p","s","t","o","r","m">>>>,
    <<<<"p","y","c","h","a","r","m">>, <<"p","y","c","h","a","r","m">>>>,
    <<<<"s","l","a","c","k">>, <<"s","l","a","c","k">>>>,
    <<<<"d","i","s","c","o","r","d">>, <<"d","i","s","c","o","r","d">>>>,
    <<<<"z","o","o","m">>, <<"z","o","o","m">>>>,
    <<<<"t","e","a","m","s">>, <<"m","i","c","r","o","s","o","f","t"," ","t","e","a","m","s">>>>,
    <<<<"s","k","y","p","e">>, <<"s","k","y","p","e">>>>,
    <<<<"t","e","r","m","i","n","a","l">>, <<"t","e","r","m","i","n","a","l">>>>,
    <<<<"c","m","d">>, <<"c","o","m","m","a","n","d"," ","p","r","o","m","p","t">>>>,
    <<<<"p","o","w","e","r","s","h","e","l","l">>, <<"w","i","n","d","o","w","s"," ","p","o","w","e","r","s","h","e","l","l">>>>,
    <<<<"g","i","t">>, <<"g","i","t">>>>,
    <<<<"d","o","c","k","e","r">>, <<"d","o","c","k","e","r">>>>,
    <<<<"s","p","o","t","i","f","y">>, <<"s","p","o","t","i","f","y">>>>,
    <<<<"v","l","c">>, <<"v","l","c"," ","m","e","d","i","a"," ","p","l","a","y","e","r">>>>,
    <<<<"i","t","u","n","e","s">>, <<"i","t","u","n","e","s">>>>,
    <<<<"y","o","u","t","u","b","e">>, <<"y","o","u","t","u","b","e">>>>,
    <<<<"w","o","r","d">>, <<"m","i","c","r","o","s","o","f","t"," ","w","o","r","d">>>>,
    <<<<"e","x","c","e","l">>, <<"m","i","c","r","o","s","o","f","t"," ","e","x","c","e","l">>>>,
    <<<<"p","o","w","e","r","p","o","i","n","t">>, <<"m","i","c","r","o","s","o","f","t"," ","p","o","w","e","r","p","o","i","n","t">>>>,
    <<<<"o","u","t","l","o","o","k">>, <<"m","i","c","r","o","s","o","f","t"," ","o","u","t","l","o","o","k">>>>,
    <<<<"n","o","t","i","o","n">>, <<"n","o","t","i","o","n">>>>,
    <<<<"o","b","s","i","d","i","a","n">>, <<"o","b","s","i","d","i","a","n">>>>,
    <<<<"t","w","i","t","t","e","r">>, <<"t","w","i","t","t","e","r">>>>,
    <<<<"f","a","c","e","b","o","o","k">>, <<"f","a","c","e","b","o","o","k">>>>,
    <<<<"i","n","s","t","a","g","r","a","m">>, <<"i","n","s","t","a","g","r","a","m">>>>,
    <<<<"t","i","k","t","o","k">>, <<"t","i","k","t","o","k">>>>,
    <<<<"s","t","e","a","m">>, <<"s","t","e","a","m">>>>,
    <<<<"o","r","i","g","i","n">>, <<"o","r","i","g","i","n">>>>,
    <<<<"e","p","i","c">>, <<"e","p","i","c"," ","g","a","m","e","s"," ","l","a","u","n","c","h","e","r">>>> }

\* Mutant of getCanonicalName: the alias table is not consulted.
getCanonicalName_NoAlias(name) == normalizeBasic(name)

getCanonicalName(name) ==
  LET normalized == normalizeBasic(name)
  IN  IF \E p \in APP_ALIASES : p[1] = normalized
      THEN (CHOOSE p \in APP_ALIASES : p[1] = normalized)[2]
      ELSE normalized

\* String.prototype.includes
StrIncludes(s, part) ==
  \E i \in 0..(Len(s) - Len(part)) : SubSeq(s, i + 1, i + Len(part)) = part

\* split(' ').filter((w) => w.length > 0)
RECURSIVE SplitWords(_, _)
SplitWords(s, word) ==
  IF s = <<>> THEN (IF word = <<>> THEN <<>> ELSE <<word>>)
  ELSE IF Head(s) = " "
       THEN (IF word = <<>> THEN <<>> ELSE <<word>>) \o SplitWords(Tail(s), <<>>)
       ELSE SplitWords(Tail(s), Append(word, Head(s)))

Words(s) == SplitWords(s, <<>>)

\* One row of the matrix: row holds matrix[i][0 .. Len(row)-1], prev is matrix[i-1].
RECURSIVE LevRowFill(_, _, _, _)
LevRowFill(prev, c, str2, row) ==
  IF Len(row) = Len(str2) + 1 THEN row
  ELSE LET j == Len(row)
           cost == IF c = str2[j] THEN 0 ELSE 1
           cell == Min(Min(prev[j + 1] + 1, row[j] + 1), prev[j] + cost)
       IN  LevRowFill(prev, c, str2, Append(row, cell))

RECURSIVE LevRows(_, _, _, _)
LevRows(str1, str2, i, prev) ==
  IF i > Len(str1) THEN prev
  ELSE LET row == LevRowFill(prev, str1[i], str2, <<i>>)
       IN  \* the test on row makes TLC compute the row before it goes on
           IF Len(row) > 0 THEN LevRows(str1, str2, i + 1, row) ELSE row

levenshteinDistance(str1, str2) ==
  LevRows(str1, str2, 1, [j \in 1..(Len(str2) + 1) |-> j - 1])[Len(str2) + 1]

\* The "find matches" loop: m1, m2 are the indices flagged in str1Matches, str2Matches.
RECURSIVE JaroMatches(_, _, _, _, _, _)
JaroMatches(str1, str2, matchWindow, i, m1, m2) ==
  IF i > Len(str1) THEN <<m1, m2>>
  ELSE LET start == Max(1, i - matchWindow)
           end == Min(i + matchWindow, Len(str2))
           hits == {j \in start..end : j \notin m2 /\ str1[i] = str2[j]}
       IN  IF hits = {} THEN JaroMatches(str1, str2, matchWindow, i + 1, m1, m2)
           ELSE LET j == CHOOSE h \in hits : \A g \in hits : h <= g
                IN  JaroMatches(str1, str2, matchWindow, i + 1, m1 \cup {i}, m2 \cup {j})

\* the k-th smallest element of a set of indices
Nth(S, k) == CHOOSE x \in S : Cardinality({y \in S : y < x}) = k - 1

jaroWinklerSimilarity(str1, str2) ==
  LET len1 == Len(str1)
      len2 == Len(str2)
      matchWindow == (Max(len1, len2) \div 2) - 1
  IN  IF len1 = 0 /\ len2 = 0 THEN Rat(1, 1)
      ELSE IF len1 = 0 \/ len2 = 0 THEN Rat(0, 1)
      ELSE IF matchWindow < 0 THEN Rat(0, 1)
      ELSE LET m == JaroMatches(str1, str2, matchWindow, 1, {}, {})
               matches == Cardinality(m[1])
           IN  IF matches = 0 THEN Rat(0, 1)
               ELSE LET transpositions ==
                          Cardinality({k \in 1..matches :
                                         str1[Nth(m[1], k)] # str2[Nth(m[2], k)]})
                        jaro ==
                          RatMul(RatAdd(RatAdd(Rat(matches, len1), Rat(matches, len2)),
                                        Rat(2 * matches - transpositions, 2 * matches)),
                                 Rat(1, 3))
                        limit == Min(Min(len1, len2), 4)
                        prefix ==
                          Cardinality({i \in 1..limit :
                                         \A k \in 1..i : str1[k] = str2[k]})
                   IN  RatAdd(jaro, RatMul(Rat(prefix, 10), RatSub(Rat(1, 1), jaro)))

\* Mutant of calculateMatchScore: the word score divides by the smaller word count.
calculateMatchScore_WordMin(target, candidate) ==
  IF target = <<>> \/ candidate = <<>> THEN Rat(0, 1)
  ELSE
  LET normalizedTarget == normalizeBasic(target)
      normalizedCandidate == normalizeBasic(candidate)
      canonicalTarget == getCanonicalName(normalizedTarget)
      canonicalCandidate == getCanonicalName(normalizedCandidate)
      targetWords == Words(canonicalTarget)
      candidateWords == Words(canonicalCandidate)
      wordMatches ==
        Cardinality({i \in 1..Len(targetWords) :
                       \E k \in 1..Len(candidateWords) :
                          \/ StrIncludes(candidateWords[k], targetWords[i])
                          \/ StrIncludes(targetWords[i], candidateWords[k])})
      wordScore == Rat(wordMatches, Min(Len(targetWords), Len(candidateWords)))
      maxLength == Max(Len(canonicalTarget), Len(canonicalCandidate))
      levenshteinDist == levenshteinDistance(canonicalTarget, canonicalCandidate)
      levenshteinSimilarity == RatSub(Rat(1, 1), Rat(levenshteinDist, maxLength))
      jaroWinklerSim == jaroWinklerSimilarity(canonicalTarget, canonicalCandidate)
      fuzzyScore ==
        RatAdd(RatMul(levenshteinSimilarity, Rat(4, 10)), RatMul(jaroWinklerSim, Rat(6, 10)))
  IN  IF canonicalTarget = canonicalCandidate THEN Rat(1, 1)
      ELSE IF normalizedTarget = normalizedCandidate THEN Rat(95, 100)
      ELSE IF StrIncludes(canonicalCandidate, canonicalTarget) THEN Rat(90, 100)
      ELSE IF StrIncludes(canonicalTarget, canonicalCandidate) THEN Rat(85, 100)
      ELSE IF StrIncludes(normalizedCandidate, normalizedTarget) THEN Rat(80, 100)
      ELSE IF StrIncludes(normalizedTarget, normalizedCandidate) THEN Rat(75, 100)
      ELSE IF /\ Len(targetWords) > 0
              /\ Len(candidateWords) > 0
              /\ RatGt(wordScore, Rat(5, 10))
           THEN RatAdd(Rat(6, 10), RatMul(wordScore, Rat(15, 100)))
      ELSE IF RatGt(fuzzyScore, Rat(6, 10)) THEN fuzzyScore
      ELSE Rat(0, 1)

\* Mutant of calculateMatchScore: the normalized names are compared before the
\* canonical ones.
calculateMatchScore_NormalizedFirst(target, candidate) ==
  IF target = <<>> \/ candidate = <<>> THEN Rat(0, 1)
  ELSE
  LET normalizedTarget == normalizeBasic(target)
      normalizedCandidate == normalizeBasic(candidate)
      canonicalTarget == getCanonicalName(normalizedTarget)
      canonicalCandidate == getCanonicalName(normalizedCandidate)
      targetWords == Words(canonicalTarget)
      candidateWords == Words(canonicalCandidate)
      wordMatches ==
        Cardinality({i \in 1..Len(targetWords) :
                       \E k \in 1..Len(candidateWords) :
                          \/ StrIncludes(candidateWords[k], targetWords[i])
                          \/ StrIncludes(targetWords[i], candidateWords[k])})
      wordScore == Rat(wordMatches, Max(Len(targetWords), Len(candidateWords)))
      maxLength == Max(Len(canonicalTarget), Len(canonicalCandidate))
      levenshteinDist == levenshteinDistance(canonicalTarget, canonicalCandidate)
      levenshteinSimilarity == RatSub(Rat(1, 1), Rat(levenshteinDist, maxLength))
      jaroWinklerSim == jaroWinklerSimilarity(canonicalTarget, canonicalCandidate)
      fuzzyScore ==
        RatAdd(RatMul(levenshteinSimilarity, Rat(4, 10)), RatMul(jaroWinklerSim, Rat(6, 10)))
  IN  IF normalizedTarget = normalizedCandidate THEN Rat(95, 100)
      ELSE IF canonicalTarget = canonicalCandidate THEN Rat(1, 1)
      ELSE IF StrIncludes(canonicalCandidate, canonicalTarget) THEN Rat(90, 100)
      ELSE IF StrIncludes(canonicalTarget, canonicalCandidate) THEN Rat(85, 100)
      ELSE IF StrIncludes(normalizedCandidate, normalizedTarget) THEN Rat(80, 100)
      ELSE IF StrIncludes(normalizedTarget, normalizedCandidate) THEN Rat(75, 100)
      ELSE IF /\ Len(targetWords) > 0
              /\ Len(candidateWords) > 0
              /\ RatGt(wordScore, Rat(5, 10))
           THEN RatAdd(Rat(6, 10), RatMul(wordScore, Rat(15, 100)))
      ELSE IF RatGt(fuzzyScore, Rat(6, 10)) THEN fuzzyScore
      ELSE Rat(0, 1)

\* Mutant of calculateMatchScore: no early return on an empty argument.
calculateMatchScore_NoEmptyCheck(target, candidate) ==
  LET normalizedTarget == normalizeBasic(target)
      normalizedCandidate == normalizeBasic(candidate)
      canonicalTarget == getCanonicalName(normalizedTarget)
      canonicalCandidate == getCanonicalName(normalizedCandidate)
      targetWords == Words(canonicalTarget)
      candidateWords == Words(canonicalCandidate)
      wordMatches ==
        Cardinality({i \in 1..Len(targetWords) :
                       \E k \in 1..Len(candidateWords) :
                          \/ StrIncludes(candidateWords[k], targetWords[i])
                          \/ StrIncludes(targetWords[i], candidateWords[k])})
      wordScore == Rat(wordMatches, Max(Len(targetWords), Len(candidateWords)))
      maxLength == Max(Len(canonicalTarget), Len(canonicalCandidate))
      levenshteinDist == levenshteinDistance(canonicalTarget, canonicalCandidate)
      levenshteinSimilarity == RatSub(Rat(1, 1), Rat(levenshteinDist, maxLength))
      jaroWinklerSim == jaroWinklerSimilarity(canonicalTarget, canonicalCandidate)
      fuzzyScore ==
        RatAdd(RatMul(levenshteinSimilarity, Rat(4, 10)), RatMul(jaroWinklerSim, Rat(6, 10)))
  IN  IF canonicalTarget = canonicalCandidate THEN Rat(1, 1)
      ELSE IF normalizedTarget = normalizedCandidate THEN Rat(95, 100)
      ELSE IF StrIncludes(canonicalCandidate, canonicalTarget) THEN Rat(90, 100)
      ELSE IF StrIncludes(canonicalTarget, canonicalCandidate) THEN Rat(85, 100)
      ELSE IF StrIncludes(normalizedCandidate, normalizedTarget) THEN Rat(80, 100)
      ELSE IF StrIncludes(normalizedTarget, normalizedCandidate) THEN Rat(75, 100)
      ELSE IF /\ Len(targetWords) > 0
              /\ Len(candidateWords) > 0
              /\ RatGt(wordScore, Rat(5, 10))
           THEN RatAdd(Rat(6, 10), RatMul(wordScore, Rat(15, 100)))
      ELSE IF RatGt(fuzzyScore, Rat(6, 10)) THEN fuzzyScore
      ELSE Rat(0, 1)

\* Mutant of calculateMatchScore: containment of the normalized names is tested
\* before containment of the canonical names.
calculateMatchScore_ContainmentSwapped(target, candidate) ==
  IF target = <<>> \/ candidate = <<>> THEN Rat(0, 1)
  ELSE
  LET normalizedTarget == normalizeBasic(target)
      normalizedCandidate == normalizeBasic(candidate)
      canonicalTarget == getCanonicalName(normalizedTarget)
      canonicalCandidate == getCanonicalName(normalizedCandidate)
      targetWords == Words(canonicalTarget)
      candidateWords == Words(canonicalCandidate)
      wordMatches ==
        Cardinality({i \in 1..Len(targetWords) :
                       \E k \in 1..Len(candidateWords) :
                          \/ StrIncludes(candidateWords[k], targetWords[i])
                          \/ StrIncludes(targetWords[i], candidateWords[k])})
      wordScore == Rat(wordMatches, Max(Len(targetWords), Len(candidateWords)))
      maxLength == Max(Len(canonicalTarget), Len(canonicalCandidate))
      levenshteinDist == levenshteinDistance(canonicalTarget, canonicalCandidate)
      levenshteinSimilarity == RatSub(Rat(1, 1), Rat(levenshteinDist, maxLength))
      jaroWinklerSim == jaroWinklerSimilarity(canonicalTarget, canonicalCandidate)
      fuzzyScore ==
        RatAdd(RatMul(levenshteinSimilarity, Rat(4, 10)), RatMul(jaroWinklerSim, Rat(6, 10)))
  IN  IF canonicalTarget = canonicalCandidate THEN Rat(1, 1)
      ELSE IF normalizedTarget = normalizedCandidate THEN Rat(95, 100)
      ELSE IF StrIncludes(normalizedCandidate, normalizedTarget) THEN Rat(80, 100)
      ELSE IF StrIncludes(normalizedTarget, normalizedCandidate) THEN Rat(75, 100)
      ELSE IF StrIncludes(canonicalCandidate, canonicalTarget) THEN Rat(90, 100)
      ELSE IF StrIncludes(canonicalTarget, canonicalCandidate) THEN Rat(85, 100)
      ELSE IF /\ Len(targetWords) > 0
              /\ Len(candidateWords) > 0
              /\ RatGt(wordScore, Rat(5, 10))
           THEN RatAdd(Rat(6, 10), RatMul(wordScore, Rat(15, 100)))
      ELSE IF RatGt(fuzzyScore, Rat(6, 10)) THEN fuzzyScore
      ELSE Rat(0, 1)

\* Mutant of calculateMatchScore: fuzzy scores above 0.3 are returned.
calculateMatchScore_LowFuzzy(target, candidate) ==
  IF target = <<>> \/ candidate = <<>> THEN Rat(0, 1)
  ELSE
  LET normalizedTarget == normalizeBasic(target)
      normalizedCandidate == normalizeBasic(candidate)
      canonicalTarget == getCanonicalName(normalizedTarget)
      canonicalCandidate == getCanonicalName(normalizedCandidate)
      targetWords == Words(canonicalTarget)
      candidateWords == Words(canonicalCandidate)
      wordMatches ==
        Cardinality({i \in 1..Len(targetWords) :
                       \E k \in 1..Len(candidateWords) :
                          \/ StrIncludes(candidateWords[k], targetWords[i])
                          \/ StrIncludes(targetWords[i], candidateWords[k])})
      wordScore == Rat(wordMatches, Max(Len(targetWords), Len(candidateWords)))
      maxLength == Max(Len(canonicalTarget), Len(canonicalCandidate))
      levenshteinDist == levenshteinDistance(canonicalTarget, canonicalCandidate)
      levenshteinSimilarity == RatSub(Rat(1, 1), Rat(levenshteinDist, maxLength))
      jaroWinklerSim == jaroWinklerSimilarity(canonicalTarget, canonicalCandidate)
      fuzzyScore ==
        RatAdd(RatMul(levenshteinSimilarity, Rat(4, 10)), RatMul(jaroWinklerSim, Rat(6, 10)))
  IN  IF canonicalTarget = canonicalCandidate THEN Rat(1, 1)
      ELSE IF normalizedTarget = normalizedCandidate THEN Rat(95, 100)
      ELSE IF StrIncludes(canonicalCandidate, canonicalTarget) THEN Rat(90, 100)
      ELSE IF StrIncludes(canonicalTarget, canonicalCandidate) THEN Rat(85, 100)
      ELSE IF StrIncludes(normalizedCandidate, normalizedTarget) THEN Rat(80, 100)
      ELSE IF StrIncludes(normalizedTarget, normalizedCandidate) THEN Rat(75, 100)
      ELSE IF /\ Len(targetWords) > 0
              /\ Len(candidateWords) > 0
              /\ RatGt(wordScore, Rat(5, 10))
           THEN RatAdd(Rat(6, 10), RatMul(wordScore, Rat(15, 100)))
      ELSE IF RatGt(fuzzyScore, Rat(3, 10)) THEN fuzzyScore
      ELSE Rat(0, 1)

calculateMatchScore(target, candidate) ==
  IF target = <<>> \/ candidate = <<>> THEN Rat(0, 1)
  ELSE
  LET normalizedTarget == normalizeBasic(target)
      normalizedCandidate == normalizeBasic(candidate)
      canonicalTarget == getCanonicalName(normalizedTarget)
      canonicalCandidate == getCanonicalName(normalizedCandidate)
      targetWords == Words(canonicalTarget)
      candidateWords == Words(canonicalCandidate)
      wordMatches ==
        Cardinality({i \in 1..Len(targetWords) :
                       \E k \in 1..Len(candidateWords) :
                          \/ StrIncludes(candidateWords[k], targetWords[i])
                          \/ StrIncludes(targetWords[i], candidateWords[k])})
      wordScore == Rat(wordMatches, Max(Len(targetWords), Len(candidateWords)))
      maxLength == Max(Len(canonicalTarget), Len(canonicalCandidate))
      levenshteinDist == levenshteinDistance(canonicalTarget, canonicalCandidate)
      levenshteinSimilarity == RatSub(Rat(1, 1), Rat(levenshteinDist, maxLength))
      jaroWinklerSim == jaroWinklerSimilarity(canonicalTarget, canonicalCandidate)
      fuzzyScore ==
        RatAdd(RatMul(levenshteinSimilarity, Rat(4, 10)), RatMul(jaroWinklerSim, Rat(6, 10)))
  IN  IF canonicalTarget = canonicalCandidate THEN Rat(1, 1)
      ELSE IF normalizedTarget = normalizedCandidate THEN Rat(95, 100)
      ELSE IF StrIncludes(canonicalCandidate, canonicalTarget) THEN Rat(90, 100)
      ELSE IF StrIncludes(canonicalTarget, canonicalCandidate) THEN Rat(85, 100)
      ELSE IF StrIncludes(normalizedCandidate, normalizedTarget) THEN Rat(80, 100)
      ELSE IF StrIncludes(normalizedTarget, normalizedCandidate) THEN Rat(75, 100)
      ELSE IF /\ Len(targetWords) > 0
              /\ Len(candidateWords) > 0
              /\ RatGt(wordScore, Rat(5, 10))
           THEN RatAdd(Rat(6, 10), RatMul(wordScore, Rat(15, 100)))
      ELSE IF RatGt(fuzzyScore, Rat(6, 10)) THEN fuzzyScore
      ELSE Rat(0, 1)

\* Mutant of BetterMatch: a candidate that equals the best score replaces the
\* best match.
BetterMatch_LastWins(best, candidate, score) ==
  IF RatGe(score, best.score) /\ RatGt(score, Threshold)
  THEN [ match |-> candidate, score |-> score,
         normalizedTarget |-> best.normalizedTarget,
         normalizedCandidate |-> normalizeBasic(candidate) ]
  ELSE best

\* The body of the for loop of findBestMatch: the best match after a candidate
\* with the score given.
BetterMatch(best, candidate, score) ==
  IF RatGt(score, best.score) /\ RatGt(score, Threshold)
  THEN [ match |-> candidate, score |-> score,
         normalizedTarget |-> best.normalizedTarget,
         normalizedCandidate |-> normalizeBasic(candidate) ]
  ELSE best

\* The for loop of findBestMatch over candidates[i..], carrying the best so far.
RECURSIVE BestFrom(_, _, _, _)
BestFrom(target, candidates, i, best) ==
  IF i > Len(candidates) THEN best
  ELSE BestFrom(target, candidates, i + 1,
                BetterMatch(best, candidates[i],
                            calculateMatchScore(target, candidates[i])))

findBestMatch(target, candidates) ==
  BestFrom(target, candidates,
           IF target = <<>> \/ Len(candidates) = 0 THEN Len(candidates) + 1 ELSE 1,
           [ match |-> <<>>, score |-> Rat(0, 1),
             normalizedTarget |-> normalizeBasic(target),
             normalizedCandidate |-> <<>> ])

\* The body of the for loop of findAllMatches: matches after a candidate with
\* the score given.
PushMatch(matches, candidate, score, threshold) ==
  IF RatGe(score, threshold)
  THEN Append(matches, [ app |-> candidate, score |-> score,
                         normalizedName |-> normalizeBasic(candidate) ])
  ELSE matches

\* The for loop of findAllMatches over candidates[i..], carrying the matches
\* pushed so far.
RECURSIVE MatchesFrom(_, _, _, _, _)
MatchesFrom(target, candidates, i, threshold, matches) ==
  IF i > Len(candidates) THEN matches
  ELSE MatchesFrom(target, candidates, i + 1, threshold,
                   PushMatch(matches, candidates[i],
                             calculateMatchScore(target, candidates[i]), threshold))

\* Mutant of InsertByScore: the element goes before the elements of equal score.
RECURSIVE InsertByScore_BeforeEqual(_, _)
InsertByScore_BeforeEqual(sorted, m) ==
  IF sorted = <<>> THEN <<m>>
  ELSE IF RatGt(Head(sorted).score, m.score)
  THEN <<Head(sorted)>> \o InsertByScore_BeforeEqual(Tail(sorted), m)
  ELSE <<m>> \o sorted

\* One element put into an array already sorted by (a, b) => b.score - a.score:
\* after every element that does not score less.
RECURSIVE InsertByScore(_, _)
InsertByScore(sorted, m) ==
  IF sorted = <<>> THEN <<m>>
  ELSE IF RatGe(Head(sorted).score, m.score)
  THEN <<Head(sorted)>> \o InsertByScore(Tail(sorted), m)
  ELSE <<m>> \o sorted

\* Array.prototype.sort((a, b) => b.score - a.score), which is stable
RECURSIVE SortByScore(_, _)
SortByScore(matches, sorted) ==
  IF matches = <<>> THEN sorted
  ELSE SortByScore(Tail(matches), InsertByScore(sorted, Head(matches)))

findAllMatches(target, candidates, threshold) ==
  IF target = <<>> \/ Len(candidates) = 0 THEN <<>>
  ELSE SortByScore(MatchesFrom(target, candidates, 1, threshold, <<>>), <<>>)

\* The threshold suggestAppNames hands to findAllMatches.
SuggestionThreshold == Rat(3, 10)

\* slice(0, maxSuggestions).map(...) of suggestAppNames
FirstSuggestions(matches, maxSuggestions) ==
  [i \in 1..Min(maxSuggestions, Len(matches)) |->
     [app |-> matches[i].app, score |-> matches[i].score]]

suggestAppNames(partial, availableApps, maxSuggestions) ==
  IF partial = <<>> \/ Len(partial) < 2 THEN <<>>
  ELSE FirstSuggestions(findAllMatches(partial, availableApps, SuggestionThreshold),
                        maxSuggestions)

\* ------------------------------------------------- store/focusMonitor.ts

\* The log keeps its last 100 entries.
LogCapacity == 100

initialState ==
  [ taskDescription |-> <<>>,
    allowedApps |-> <<>>,
    blockedApps |-> <<>>,
    monitoringFrequency |-> 60,
    isActive |-> FALSE,
    lastCheckTime |-> 0,
    logs |-> <<>>,
    statistics |-> [totalChecks |-> 0, focusedChecks |-> 0, distractedChecks |-> 0] ]

setTaskDescription(state, payload) == [state EXCEPT !.taskDescription = payload]

setMonitoringFrequency(state, payload) == [state EXCEPT !.monitoringFrequency = payload]

addAllowedApp(state, payload) ==
  IF ~Includes(state.allowedApps, payload)
  THEN [state EXCEPT !.allowedApps = Append(@, payload)]
  ELSE state

removeAllowedApp(state, payload) == [state EXCEPT !.allowedApps = Without(@, payload)]

addBlockedApp(state, payload) ==
  IF ~Includes(state.blockedApps, payload)
  THEN [state EXCEPT !.blockedApps = Append(@, payload)]
  ELSE state

removeBlockedApp(state, payload) == [state EXCEPT !.blockedApps = Without(@, payload)]

setIsActive(state, payload) == [state EXCEPT !.isActive = payload]

setLastCheckTime(state, payload) == [state EXCEPT !.lastCheckTime = payload]

\* Mutant of addLog: the log is never cut.
addLog_NoCap(state, payload) == [state EXCEPT !.logs = Append(@, payload)]

\* Mutant of addLog: slice(0, 100), which drops the newest entry of a full log.
addLog_EvictNewest(state, payload) ==
  LET pushed == Append(state.logs, payload)
  IN  IF Len(pushed) > 100
      THEN [state EXCEPT !.logs = SubSeq(pushed, 1, 100)]
      ELSE [state EXCEPT !.logs = pushed]

\* Mutant of clearLogs: the clear also resets the statistics.
clearLogs_AndStatistics(state) ==
  [state EXCEPT !.logs = <<>>,
                !.statistics = [totalChecks |-> 0, focusedChecks |-> 0,
                                distractedChecks |-> 0]]

\* logs.push(payload), then slice(-100) once the length exceeds 100
addLog(state, payload) ==
  LET pushed == Append(state.logs, payload)
  IN  IF Len(pushed) > LogCapacity
      THEN [state EXCEPT !.logs = SubSeq(pushed, Len(pushed) - LogCapacity + 1, Len(pushed))]
      ELSE [state EXCEPT !.logs = pushed]

clearLogs(state) == [state EXCEPT !.logs = <<>>]

incrementTotalChecks(state) == [state EXCEPT !.statistics.totalChecks = @ + 1]

incrementFocusedChecks(state) == [state EXCEPT !.statistics.focusedChecks = @ + 1]

incrementDistractedChecks(state) == [state EXCEPT !.statistics.distractedChecks = @ + 1]

\* Mutant of resetStatistics: the reset forgets two of the three counters.
resetStatistics_TotalOnly(state) == [state EXCEPT !.statistics.totalChecks = 0]

resetStatistics(state) ==
  [state EXCEPT !.statistics =
     [totalChecks |-> 0, focusedChecks |-> 0, distractedChecks |-> 0]]

\* ------------------------------------------------- SystemAppService.ts

\* What the IPC call window.api.system.getActiveWindow() comes back with: a
\* window and its owner's name, no window, or a rejected call.
NoWindow == [status |-> "none", owner |-> <<>>]
IpcError == [status |-> "error", owner |-> <<>>]
WindowOutcomes ==
  {[status |-> "window", owner |-> n] : n \in ActiveNames} \cup {NoWindow, IpcError}

\* AppInfo.originalName of the active application, <<>> when getActiveApp
\* returns null: no window, or the caught IPC error.
getActiveApp(outcome) ==
  IF outcome.status = "error" THEN <<>>
  ELSE IF outcome.status = "none" THEN <<>>
  ELSE IF outcome.owner # <<>> THEN outcome.owner
  ELSE Unknown

\* platform: which of the two IPC functions window.api.system has
isSupported(platform) == platform.activeWindow /\ platform.processList

\* ------------------------------------------- FocusMonitoringService.ts

\* (score * 100).toFixed(0)
Percent(score) == (200 * score[1] + score[2]) \div (2 * score[2])

\* what checkBlockedApps returns for the match result of findBestMatch
BlockedVerdict(matchResult) ==
  IF RatGt(matchResult.score, Threshold)
  THEN [ isFocused |-> FALSE,
         reason |-> <<"blocked application in use", matchResult.match,
                      Percent(matchResult.score)>> ]
  ELSE [ isFocused |-> TRUE,
         reason |-> <<"application not in blocked list", <<>>, 0>> ]

checkBlockedApps(currentApp, blockedApps) ==
  BlockedVerdict(findBestMatch(currentApp, blockedApps))

\* Mutant of AllowedVerdict: every application passes the allowed list.
AllowedVerdict_AlwaysFocused(matchResult, currentApp) ==
  [ isFocused |-> TRUE,
    reason |-> <<"allowed application in use", matchResult.match,
                 Percent(matchResult.score)>> ]

\* what checkAllowedApps returns for the match result of findBestMatch
AllowedVerdict(matchResult, currentApp) ==
  IF RatGt(matchResult.score, Threshold)
  THEN [ isFocused |-> TRUE,
         reason |-> <<"allowed application in use", matchResult.match,
                      Percent(matchResult.score)>> ]
  ELSE [ isFocused |-> FALSE,
         reason |-> <<"application not in allowed list", currentApp, 0>> ]

checkAllowedApps(currentApp, allowedApps) ==
  AllowedVerdict(findBestMatch(currentApp, allowedApps), currentApp)

\* Mutant of FocusVerdict: a match in the allowed list wins over the blocked list.
FocusVerdict_AllowedWins(state, activeApp, timestamp, blockedCheck, allowedCheck) ==
  IF Len(state.allowedApps) > 0 /\ allowedCheck.isFocused
  THEN [ isFocused |-> TRUE,
         reason |-> <<"allowed application in use", <<>>, 0>>,
         activeApp |-> activeApp, timestamp |-> timestamp ]
  ELSE IF Len(state.blockedApps) > 0 /\ ~blockedCheck.isFocused
  THEN [ isFocused |-> FALSE, reason |-> blockedCheck.reason,
         activeApp |-> activeApp, timestamp |-> timestamp ]
  ELSE IF Len(state.allowedApps) > 0
  THEN [ isFocused |-> FALSE, reason |-> allowedCheck.reason,
         activeApp |-> activeApp, timestamp |-> timestamp ]
  ELSE [ isFocused |-> TRUE,
         reason |-> <<"allowed application in use", <<>>, 0>>,
         activeApp |-> activeApp, timestamp |-> timestamp ]

\* Mutant of FocusVerdict: the allowed list is consulted even when it is empty.
FocusVerdict_NoLengthCheck(state, activeApp, timestamp, blockedCheck, allowedCheck) ==
  IF Len(state.blockedApps) > 0 /\ ~blockedCheck.isFocused
  THEN [ isFocused |-> FALSE, reason |-> blockedCheck.reason,
         activeApp |-> activeApp, timestamp |-> timestamp ]
  ELSE IF ~allowedCheck.isFocused
  THEN [ isFocused |-> FALSE, reason |-> allowedCheck.reason,
         activeApp |-> activeApp, timestamp |-> timestamp ]
  ELSE [ isFocused |-> TRUE,
         reason |-> <<"allowed application in use", <<>>, 0>>,
         activeApp |-> activeApp, timestamp |-> timestamp ]

\* The decision of analyzeCurrentFocus from the two list checks.
FocusVerdict(state, activeApp, timestamp, blockedCheck, allowedCheck) ==
  IF Len(state.blockedApps) > 0 /\ ~blockedCheck.isFocused
  THEN [ isFocused |-> FALSE, reason |-> blockedCheck.reason,
         activeApp |-> activeApp, timestamp |-> timestamp ]
  ELSE IF Len(state.allowedApps) > 0 /\ ~allowedCheck.isFocused
  THEN [ isFocused |-> FALSE, reason |-> allowedCheck.reason,
         activeApp |-> activeApp, timestamp |-> timestamp ]
  ELSE [ isFocused |-> TRUE,
         reason |-> <<"allowed application in use", <<>>, 0>>,
         activeApp |-> activeApp, timestamp |-> timestamp ]

\* Mutant of analyzeCurrentFocus: the lists are consulted even when no
\* application was detected.
analyzeCurrentFocus_NoNullCheck(state, activeApp, timestamp) ==
  FocusVerdict(state, activeApp, timestamp,
               checkBlockedApps(activeApp, state.blockedApps),
               checkAllowedApps(activeApp, state.allowedApps))

\* The part of analyzeCurrentFocus after its await: state and timestamp were
\* read before the await, activeApp is what getActiveApp resolved to.
analyzeCurrentFocus(state, activeApp, timestamp) ==
  IF activeApp = <<>>
  THEN [ isFocused |-> TRUE,
         reason |-> <<"no active application detected", <<>>, 0>>,
         activeApp |-> <<>>,
         timestamp |-> timestamp ]
  ELSE FocusVerdict(state, activeApp, timestamp,
                    checkBlockedApps(activeApp, state.blockedApps),
                    checkAllowedApps(activeApp, state.allowedApps))

\* The log entry of the catch block of performCheck.
errorLog(timestamp) ==
  [ isFocused |-> FALSE,
    reason |-> <<"monitoring check failed", <<>>, 0>>,
    activeApp |-> <<>>,
    timestamp |-> timestamp ]

\* ------------------------------------------------ store/pomodoro.ts

\* The timer fields of PomodoroState. sessions is the length of the session
\* history; no task is current, so incrementPomodoroCount touches no task.
pomodoroInitialState ==
  [ timeLeft |-> 25 * 60,
    currentPhase |-> "work",
    isRunning |-> FALSE,
    workCount |-> 0,
    settings |-> [ workDuration |-> 25, shortBreakDuration |-> 5,
                   longBreakDuration |-> 15, longBreakInterval |-> 4 ],
    sessions |-> 0 ]

setTimeLeft(state, payload) == [state EXCEPT !.timeLeft = payload]

setCurrentPhase(state, payload) == [state EXCEPT !.currentPhase = payload]

setIsRunning(state, payload) == [state EXCEPT !.isRunning = payload]

setWorkCount(state, payload) == [state EXCEPT !.workCount = payload]

\* Object.assign(state, {settings})
setPomodoroState(state, settings) == [state EXCEPT !.settings = settings]

incrementPomodoroCount(state) == [state EXCEPT !.sessions = @ + 1]

\* ------------------------------------------------ PomodoroTimerService

\* value || fallback, for numbers
OrElse(value, fallback) == IF value = 0 THEN fallback ELSE value

\* The service before any call: no interval.
NoTimer == [intervalId |-> 0, intervals |-> {}, lastOp |-> "none"]

\* The phase after a work phase that brings the work count to newWorkCount.
BreakAfter(state, newWorkCount) ==
  IF newWorkCount % OrElse(state.settings.longBreakInterval, 4) = 0
  THEN "longBreak"
  ELSE "shortBreak"

\* The duration, in seconds, of a break phase.
BreakDuration(state, nextPhase) ==
  IF nextPhase = "longBreak"
  THEN OrElse(state.settings.longBreakDuration, 15) * 60
  ELSE OrElse(state.settings.shortBreakDuration, 5) * 60

\* Mutant of handlePhaseCompleted: the break is chosen from the work count
\* before the phase that completed.
handlePhaseCompleted_OldCount(state, wasWorkPhase) ==
  IF wasWorkPhase
  THEN setTimeLeft(
         setCurrentPhase(setWorkCount(incrementPomodoroCount(state), state.workCount + 1),
                         BreakAfter(state, state.workCount)),
         BreakDuration(state, BreakAfter(state, state.workCount)))
  ELSE setTimeLeft(setCurrentPhase(state, "work"),
                   OrElse(state.settings.workDuration, 25) * 60)

\* handlePhaseCompleted: the store after its dispatches, from the store state
\* it reads.
handlePhaseCompleted(state, wasWorkPhase) ==
  IF wasWorkPhase
  THEN setTimeLeft(
         setCurrentPhase(setWorkCount(incrementPomodoroCount(state), state.workCount + 1),
                         BreakAfter(state, state.workCount + 1)),
         BreakDuration(state, BreakAfter(state, state.workCount + 1)))
  ELSE setTimeLeft(setCurrentPhase(state, "work"),
                   OrElse(state.settings.workDuration, 25) * 60)

\* ------------------------------------------------ OCRService

\* The service before any call: no worker, no initialization begun. A promise
\* of doInitialization and the worker it creates carry the same number.
NoOcr ==
  [ worker |-> 0, isInitialized |-> FALSE, initializationPromise |-> 0,
    created |-> 0, pending |-> {}, terminating |-> {}, live |-> {} ]

VARIABLES
  store,               \* store.getState().focusMonitor
  isRunning,           \* FocusMonitoringService.isRunning
  monitoringInterval,  \* the handle of the last setTimeout, 0 for null
  timers,              \* the armed timers: [id, delay]
  starts,              \* startMonitoring calls suspended at await isSupported()
  checks,              \* analyzeCurrentFocus calls suspended at await getActiveApp();
                       \* history: stopped, restarted say whether stopMonitoring and
                       \* then startMonitoring were called since the call began
  run,                 \* the performCheck continuation that is executing;
                       \* history: before is the store it started from, provided
                       \* the name getActiveApp resolved to (<<>> for null)
  clock,               \* Date.now()
  platform,            \* the IPC functions of this platform
  lastError,           \* what the last call of the service threw, "" if nothing
  burst,               \* history: the start calls made back to back from rest
  phase,               \* history: the first start and a stop before its timer fired
  lastCall,            \* history: the last call of startMonitoring or stopMonitoring,
                       \* marked ":running" when isRunning was true at the call
  appended,            \* history: the entries given to addLog since the last clearLogs
  probe,               \* a caller of AppNameNormalizer: its two names and what the
                       \* calls it made returned
  pomodoro,            \* store.getState().pomodoro
  pomodoroTimer,       \* PomodoroTimerService.getInstance(): its intervalId (0 for
                       \* null) and the armed intervals; history: the last call
  ocr                  \* OCRService: its fields, the createWorker and terminate
                       \* calls in flight, and the workers created and not terminated

vars ==
  <<store, isRunning, monitoringInterval, timers, starts, checks, run, clock,
    platform, lastError, burst, phase, lastCall, appended, probe, pomodoro, pomodoroTimer,
    ocr>>

\* A caller that has called nothing yet.
NoProbe ==
  [ target |-> <<>>, candidate |-> <<>>, scored |-> FALSE, score |-> <<0, 1>>,
    reverse |-> <<0, 1>>, calls |-> 0, once |-> <<>>, twice |-> <<>>,
    candidates |-> <<>>, found |-> FALSE, best |-> findBestMatch(<<>>, <<>>),
    listed |-> FALSE, threshold |-> Threshold, all |-> <<>>,
    suggested |-> FALSE, maxSuggestions |-> 0, suggestions |-> <<>> ]

NoResult ==
  [ isFocused |-> TRUE, reason |-> <<"", <<>>, 0>>, activeApp |-> <<>>, timestamp |-> 0 ]

\* No performCheck continuation is executing.
Idle ==
  [ pc |-> "idle", result |-> NoResult, failed |-> FALSE, stopped |-> FALSE,
    restarted |-> FALSE, before |-> initialState, provided |-> <<>> ]

Busy == run.pc # "idle"

Scheduled(cs) == {c \in cs : c.kind = "scheduled"}
Manual(cs) == {c \in cs : c.kind = "manual"}

\* The timer loops alive or about to be: suspended starts, armed timers, checks
\* in flight and the continuation of one.
Loops ==
  starts + Cardinality(timers) + Cardinality(Scheduled(checks))
    + (IF Busy THEN 1 ELSE 0)

AtRest == ~isRunning /\ timers = {} /\ checks = {} /\ starts = 0

Init ==
  /\ store = initialState
  /\ isRunning = FALSE
  /\ monitoringInterval = 0
  /\ timers = {}
  /\ starts = 0
  /\ checks = {}
  /\ run = Idle
  /\ clock = 1
  /\ platform \in [activeWindow : BOOLEAN, processList : BOOLEAN]
  /\ lastError = ""
  /\ burst = 0
  /\ phase = "none"
  /\ lastCall = "none"
  /\ appended = <<>>
  /\ probe = NoProbe
  /\ pomodoro = pomodoroInitialState
  /\ pomodoroTimer = NoTimer
  /\ ocr = NoOcr

\* A handle no armed timer has and monitoringInterval does not hold.
NewTimerId ==
  CHOOSE id \in 1..(Cardinality(timers) + 2) :
    /\ id # monitoringInterval
    /\ \A t \in timers : t.id # id
    /\ \A k \in 1..(id - 1) : k = monitoringInterval \/ \E t \in timers : t.id = k

\* Mutant of scheduleNextCheck: the guard is inverted, a running monitor arms
\* nothing.
scheduleNextCheck_GuardInverted(running, state) ==
  IF running
  THEN UNCHANGED <<monitoringInterval, timers>>
  ELSE LET frequency == state.monitoringFrequency * 1000
       IN  /\ monitoringInterval' = NewTimerId
           /\ timers' = timers \cup {[id |-> NewTimerId, delay |-> frequency]}

\* scheduleNextCheck, called with isRunning = running and the store state given
scheduleNextCheck(running, state) ==
  IF ~running
  THEN UNCHANGED <<monitoringInterval, timers>>
  ELSE LET frequency == state.monitoringFrequency * 1000
       IN  /\ monitoringInterval' = NewTimerId
           /\ timers' = timers \cup {[id |-> NewTimerId, delay |-> frequency]}

\* Mutant of startMonitoring: the guard on isRunning is gone.
startMonitoring_NoGuard ==
  /\ ~Busy
  /\ IF Trim(store.taskDescription) = <<>>
     THEN /\ lastError' = "Task description is required"
          /\ burst' = 0
          /\ UNCHANGED <<starts, checks>>
     ELSE /\ Loops < MaxLoops
          /\ starts' = starts + 1
          /\ checks' = {[c EXCEPT !.restarted = c.stopped] : c \in checks}
          /\ burst' = IF burst > 0 /\ starts = burst THEN burst + 1
                      ELSE IF AtRest THEN 1 ELSE 0
          /\ UNCHANGED lastError
  /\ phase' = IF phase = "none" /\ starts' > starts THEN "started"
              ELSE IF phase = "none" THEN "none"
              ELSE "void"
  /\ lastCall' = IF isRunning THEN "startMonitoring:running" ELSE "startMonitoring"
  /\ UNCHANGED <<store, isRunning, monitoringInterval, timers, run, clock, platform,
                 appended, probe, pomodoro, pomodoroTimer, ocr>>

\* Mutant of startMonitoring: the task description is not looked at.
startMonitoring_NoTaskCheck ==
  /\ ~Busy
  /\ IF isRunning
     THEN /\ lastError' = ""
          /\ burst' = 0
          /\ UNCHANGED <<starts, checks>>
     ELSE /\ Loops < MaxLoops
          /\ starts' = starts + 1
          /\ checks' = {[c EXCEPT !.restarted = c.stopped] : c \in checks}
          /\ burst' = IF burst > 0 /\ starts = burst THEN burst + 1
                      ELSE IF AtRest THEN 1 ELSE 0
          /\ UNCHANGED lastError
  /\ phase' = IF phase = "none" /\ starts' > starts THEN "started"
              ELSE IF phase = "none" THEN "none"
              ELSE "void"
  /\ lastCall' = IF isRunning THEN "startMonitoring:running" ELSE "startMonitoring"
  /\ UNCHANGED <<store, isRunning, monitoringInterval, timers, run, clock, platform,
                 appended, probe, pomodoro, pomodoroTimer, ocr>>

\* startMonitoring up to its await
startMonitoring ==
  /\ ~Busy
  /\ IF isRunning
     THEN /\ lastError' = ""
          /\ burst' = 0
          /\ UNCHANGED <<starts, checks>>
     ELSE IF Trim(store.taskDescription) = <<>>
     THEN /\ lastError' = "Task description is required"
          /\ burst' = 0
          /\ UNCHANGED <<starts, checks>>
     ELSE /\ Loops < MaxLoops
          /\ starts' = starts + 1
          /\ checks' = {[c EXCEPT !.restarted = c.stopped] : c \in checks}
          /\ burst' = IF burst > 0 /\ starts = burst THEN burst + 1
                      ELSE IF AtRest THEN 1 ELSE 0
          /\ UNCHANGED lastError
  /\ phase' = IF phase = "none" /\ starts' > starts THEN "started"
              ELSE IF phase = "none" THEN "none"
              ELSE "void"
  /\ lastCall' = IF isRunning THEN "startMonitoring:running" ELSE "startMonitoring"
  /\ UNCHANGED <<store, isRunning, monitoringInterval, timers, run, clock, platform,
                 appended, probe, pomodoro, pomodoroTimer, ocr>>

\* Mutant of startMonitoringResume: the answer of isSupported() is ignored.
startMonitoringResume_NoSupportCheck ==
  /\ ~Busy
  /\ starts > 0
  /\ starts' = starts - 1
  /\ lastError' = ""
  /\ isRunning' = TRUE
  /\ store' = setIsActive(store, TRUE)
  /\ scheduleNextCheck(TRUE, store')
  /\ UNCHANGED <<checks, run, clock, platform, burst, phase, lastCall, appended, probe, pomodoro, pomodoroTimer, ocr>>

\* startMonitoring from the resolution of isSupported() on
startMonitoringResume ==
  /\ ~Busy
  /\ starts > 0
  /\ starts' = starts - 1
  /\ IF ~isSupported(platform)
     THEN /\ lastError' = "System app detection not supported on this platform"
          /\ UNCHANGED <<store, isRunning, monitoringInterval, timers>>
     ELSE /\ lastError' = ""
          /\ isRunning' = TRUE
          /\ store' = setIsActive(store, TRUE)
          /\ scheduleNextCheck(TRUE, store')
  /\ UNCHANGED <<checks, run, clock, platform, burst, phase, lastCall, appended, probe, pomodoro, pomodoroTimer, ocr>>

\* clearTimeout
clearTimeout(id) == {t \in timers : t.id # id}

stopMonitoring ==
  /\ ~Busy
  /\ IF ~isRunning
     THEN UNCHANGED <<store, isRunning, monitoringInterval, timers>>
     ELSE /\ IF monitoringInterval # 0
             THEN /\ timers' = clearTimeout(monitoringInterval)
                  /\ monitoringInterval' = 0
             ELSE UNCHANGED <<monitoringInterval, timers>>
          /\ isRunning' = FALSE
          /\ store' = setIsActive(store, FALSE)
  /\ checks' = {[c EXCEPT !.stopped = TRUE] : c \in checks}
  /\ lastError' = ""
  /\ burst' = 0
  /\ phase' = IF phase = "started" THEN "stopped" ELSE phase
  /\ lastCall' = IF isRunning THEN "stopMonitoring:running" ELSE "stopMonitoring"
  /\ UNCHANGED <<starts, run, clock, platform, appended, probe, pomodoro, pomodoroTimer, ocr>>

\* analyzeCurrentFocus up to its await: the timestamp and the state it reads
NewCheck(kind) ==
  [ kind |-> kind, timestamp |-> clock, stopped |-> FALSE, restarted |-> FALSE,
    allowedApps |-> store.allowedApps, blockedApps |-> store.blockedApps ]

\* An armed timer fires: performCheck up to its await.
TimerFires ==
  \E t \in timers :
    /\ ~Busy
    /\ timers' = timers \ {t}
    /\ IF ~isRunning
       THEN UNCHANGED <<checks, clock>>
       ELSE /\ clock < MaxClock
            /\ checks' = checks \cup {NewCheck("scheduled")}
            /\ clock' = clock + 1
    /\ burst' = 0
    /\ phase' = IF phase = "started" THEN "void" ELSE phase
    /\ UNCHANGED <<store, isRunning, monitoringInterval, starts, run, platform, lastError,
                   lastCall, appended, probe, pomodoro, pomodoroTimer, ocr>>

\* Mutant of CheckSettles: the lists are read from the store after the await.
CheckSettles_ReadsAfterAwait ==
  \E c \in Scheduled(checks), outcome \in WindowOutcomes, threw \in BOOLEAN :
    /\ ~Busy
    /\ checks' = checks \ {c}
    /\ run' = [ pc |-> IF threw THEN "catch" ELSE "setLastCheckTime",
                result |-> IF threw THEN NoResult
                           ELSE analyzeCurrentFocus(store, getActiveApp(outcome), c.timestamp),
                failed |-> threw,
                stopped |-> c.stopped,
                restarted |-> c.restarted,
                before |-> store,
                provided |-> IF threw THEN <<>> ELSE getActiveApp(outcome) ]
    /\ burst' = 0
    /\ UNCHANGED <<store, isRunning, monitoringInterval, timers, starts, clock, platform,
                   lastError, phase, lastCall, appended, probe, pomodoro, pomodoroTimer, ocr>>

\* performCheck resumes: its await resolved with a result, or threw.
CheckSettles ==
  \E c \in Scheduled(checks), outcome \in WindowOutcomes, threw \in BOOLEAN :
    /\ ~Busy
    /\ checks' = checks \ {c}
    /\ run' = [ pc |-> IF threw THEN "catch" ELSE "setLastCheckTime",
                result |-> IF threw THEN NoResult
                           ELSE analyzeCurrentFocus(c, getActiveApp(outcome), c.timestamp),
                failed |-> threw,
                stopped |-> c.stopped,
                restarted |-> c.restarted,
                before |-> store,
                provided |-> IF threw THEN <<>> ELSE getActiveApp(outcome) ]
    /\ burst' = 0
    /\ UNCHANGED <<store, isRunning, monitoringInterval, timers, starts, clock, platform,
                   lastError, phase, lastCall, appended, probe, pomodoro, pomodoroTimer, ocr>>

DispatchSetLastCheckTime ==
  /\ run.pc = "setLastCheckTime"
  /\ store' = setLastCheckTime(store, run.result.timestamp)
  /\ run' = [run EXCEPT !.pc = "addLog"]
  /\ UNCHANGED <<isRunning, monitoringInterval, timers, starts, checks, clock, platform,
                 lastError, burst, phase, lastCall, appended, probe, pomodoro, pomodoroTimer, ocr>>

DispatchAddLog ==
  /\ run.pc = "addLog"
  /\ store' = addLog(store, run.result)
  /\ run' = [run EXCEPT !.pc = "incrementTotalChecks"]
  /\ appended' = Append(appended, run.result)
  /\ UNCHANGED <<isRunning, monitoringInterval, timers, starts, checks, clock, platform,
                 lastError, burst, phase, lastCall, probe, pomodoro, pomodoroTimer, ocr>>

DispatchIncrementTotalChecks ==
  /\ run.pc = "incrementTotalChecks"
  /\ store' = incrementTotalChecks(store)
  /\ run' = [run EXCEPT !.pc = "incrementFocusedOrDistracted"]
  /\ UNCHANGED <<isRunning, monitoringInterval, timers, starts, checks, clock, platform,
                 lastError, burst, phase, lastCall, appended, probe, pomodoro, pomodoroTimer, ocr>>

DispatchIncrementFocusedOrDistracted ==
  /\ run.pc = "incrementFocusedOrDistracted"
  /\ store' = IF run.result.isFocused
              THEN incrementFocusedChecks(store)
              ELSE incrementDistractedChecks(store)
  /\ run' = [run EXCEPT !.pc = "scheduleNextCheck"]
  /\ UNCHANGED <<isRunning, monitoringInterval, timers, starts, checks, clock, platform,
                 lastError, burst, phase, lastCall, appended, probe, pomodoro, pomodoroTimer, ocr>>

\* the catch block of performCheck
CatchAddLog ==
  /\ run.pc = "catch"
  /\ store' = addLog(store, errorLog(clock))
  /\ run' = [run EXCEPT !.pc = "scheduleNextCheck"]
  /\ appended' = Append(appended, errorLog(clock))
  /\ UNCHANGED <<isRunning, monitoringInterval, timers, starts, checks, clock, platform,
                 lastError, burst, phase, lastCall, probe, pomodoro, pomodoroTimer, ocr>>

\* Mutant of ScheduleAfterCheck: the call of scheduleNextCheck sits inside the
\* try block, so a check that threw does not reschedule.
ScheduleAfterCheck_InTry ==
  /\ run.pc = "scheduleNextCheck"
  /\ scheduleNextCheck(isRunning /\ ~run.failed, store)
  /\ run' = Idle
  /\ UNCHANGED <<store, isRunning, starts, checks, clock, platform, lastError, burst, phase,
                 lastCall, appended, probe, pomodoro, pomodoroTimer, ocr>>

\* the last line of performCheck
ScheduleAfterCheck ==
  /\ run.pc = "scheduleNextCheck"
  /\ scheduleNextCheck(isRunning, store)
  /\ run' = Idle
  /\ UNCHANGED <<store, isRunning, starts, checks, clock, platform, lastError, burst, phase,
                 lastCall, appended, probe, pomodoro, pomodoroTimer, ocr>>

\* performManualCheck up to the await of analyzeCurrentFocus
performManualCheck ==
  /\ ~Busy
  /\ IF ~isRunning
     THEN /\ lastError' = "Monitoring is not active"
          /\ UNCHANGED <<checks, clock>>
     ELSE /\ clock < MaxClock
          /\ Cardinality(Manual(checks)) < MaxManual
          /\ checks' = checks \cup {NewCheck("manual")}
          /\ clock' = clock + 1
          /\ lastError' = ""
  /\ burst' = 0
  /\ UNCHANGED <<store, isRunning, monitoringInterval, timers, starts, run, platform, phase,
                 lastCall, appended, probe, pomodoro, pomodoroTimer, ocr>>

\* Mutant of ManualCheckSettles: the result is recorded as performCheck
\* records it.
ManualCheckSettles_Records ==
  \E c \in Manual(checks), outcome \in WindowOutcomes, threw \in BOOLEAN :
    /\ ~Busy
    /\ checks' = checks \ {c}
    /\ lastError' = IF threw THEN "analyzeCurrentFocus failed" ELSE ""
    /\ store' = IF threw THEN store
                ELSE incrementTotalChecks(
                       addLog(setLastCheckTime(store, c.timestamp),
                              analyzeCurrentFocus(c, getActiveApp(outcome), c.timestamp)))
    /\ burst' = 0
    /\ UNCHANGED <<isRunning, monitoringInterval, timers, starts, run, clock,
                   platform, phase, lastCall, appended, probe, pomodoro, pomodoroTimer, ocr>>

\* performManualCheck resumes and returns the result, or throws what was thrown.
ManualCheckSettles ==
  \E c \in Manual(checks), threw \in BOOLEAN :
    /\ ~Busy
    /\ checks' = checks \ {c}
    /\ lastError' = IF threw THEN "analyzeCurrentFocus failed" ELSE ""
    /\ burst' = 0
    /\ UNCHANGED <<store, isRunning, monitoringInterval, timers, starts, run, clock,
                   platform, phase, lastCall, appended, probe, pomodoro, pomodoroTimer, ocr>>

\* ------------------------------------------------ FocusMonitorPage.tsx

\* A dispatch of the page (or of any other holder of the store).
Dispatch(next) ==
  /\ ~Busy
  /\ store' = next
  /\ burst' = 0
  /\ UNCHANGED <<isRunning, monitoringInterval, timers, starts, checks, run, clock,
                 platform, lastError, phase, lastCall, appended, probe, pomodoro, pomodoroTimer, ocr>>

handleToggleMonitoring == Dispatch(setIsActive(store, ~store.isActive))

handleTaskDescriptionChange == \E d \in TaskChoices : Dispatch(setTaskDescription(store, d))

handleFrequencyChange == \E f \in FrequencyChoices : Dispatch(setMonitoringFrequency(store, f))

handleAddAllowedApp == \E a \in AllowedChoices : Dispatch(addAllowedApp(store, a))

handleRemoveAllowedApp == \E a \in AllowedChoices : Dispatch(removeAllowedApp(store, a))

handleAddBlockedApp == \E a \in BlockedChoices : Dispatch(addBlockedApp(store, a))

handleRemoveBlockedApp == \E a \in BlockedChoices : Dispatch(removeBlockedApp(store, a))

\* the button is disabled while the log is empty
handleClearLogs ==
  /\ Len(store.logs) > 0
  /\ ~Busy
  /\ store' = clearLogs(store)
  /\ appended' = <<>>
  /\ burst' = 0
  /\ UNCHANGED <<isRunning, monitoringInterval, timers, starts, checks, run, clock,
                 platform, lastError, phase, lastCall, probe, pomodoro, pomodoroTimer, ocr>>

ResetStatistics == Dispatch(resetStatistics(store))

\* dispatch(addLog(entry)) on its own, with the entry of a check made now: the
\* reducer under a run of appends longer than the log's capacity.
AppendLog ==
  /\ ~Busy
  /\ clock <= MaxAppends
  /\ store' = addLog(store, [NoResult EXCEPT !.timestamp = clock])
  /\ appended' = Append(appended, [NoResult EXCEPT !.timestamp = clock])
  /\ clock' = clock + 1
  /\ burst' = 0
  /\ UNCHANGED <<isRunning, monitoringInterval, timers, starts, checks, run, platform,
                 lastError, phase, lastCall, probe, pomodoro, pomodoroTimer, ocr>>

Next ==
  \/ startMonitoring
  \/ startMonitoringResume
  \/ stopMonitoring
  \/ TimerFires
  \/ CheckSettles
  \/ DispatchSetLastCheckTime
  \/ DispatchAddLog
  \/ DispatchIncrementTotalChecks
  \/ DispatchIncrementFocusedOrDistracted
  \/ CatchAddLog
  \/ ScheduleAfterCheck
  \/ performManualCheck
  \/ ManualCheckSettles
  \/ handleTaskDescriptionChange
  \/ handleAddBlockedApp
  \/ ResetStatistics

Spec == Init /\ [][Next]_vars

\* The monitor with the page's start/stop button, which dispatches setIsActive
\* and calls nothing of the service.
NextToggle ==
  \/ startMonitoring
  \/ startMonitoringResume
  \/ stopMonitoring
  \/ TimerFires
  \/ CheckSettles
  \/ DispatchSetLastCheckTime
  \/ DispatchAddLog
  \/ DispatchIncrementTotalChecks
  \/ DispatchIncrementFocusedOrDistracted
  \/ CatchAddLog
  \/ ScheduleAfterCheck
  \/ handleTaskDescriptionChange
  \/ handleToggleMonitoring

SpecToggle == Init /\ [][NextToggle]_vars

\* A caller of AppNameNormalizer holding two names.
InitScore ==
  /\ store = initialState
  /\ isRunning = FALSE
  /\ monitoringInterval = 0
  /\ timers = {}
  /\ starts = 0
  /\ checks = {}
  /\ run = Idle
  /\ clock = 1
  /\ platform = [activeWindow |-> TRUE, processList |-> TRUE]
  /\ lastError = ""
  /\ burst = 0
  /\ phase = "none"
  /\ lastCall = "none"
  /\ appended = <<>>
  /\ \E target \in ScoreNames, candidate \in ScoreNames :
       probe = [NoProbe EXCEPT !.target = target, !.candidate = candidate]
  /\ pomodoro = pomodoroInitialState
  /\ pomodoroTimer = NoTimer
  /\ ocr = NoOcr

\* AppNameNormalizer.calculateMatchScore(target, candidate), and the same call
\* with the two names exchanged
CallCalculateMatchScore ==
  /\ ~probe.scored
  /\ probe' = [probe EXCEPT !.scored = TRUE,
                            !.score = calculateMatchScore(probe.target, probe.candidate),
                            !.reverse = calculateMatchScore(probe.candidate, probe.target)]
  /\ UNCHANGED <<store, isRunning, monitoringInterval, timers, starts, checks, run, clock,
                 platform, lastError, burst, phase, lastCall, appended, pomodoro,
                   pomodoroTimer, ocr>>

\* AppNameNormalizer.normalizeBasic, first of target and then of what it returned
CallNormalizeBasic ==
  /\ probe.calls < 2
  /\ probe' = IF probe.calls = 0
              THEN [probe EXCEPT !.calls = 1, !.once = normalizeBasic(probe.target)]
              ELSE [probe EXCEPT !.calls = 2, !.twice = normalizeBasic(probe.once)]
  /\ UNCHANGED <<store, isRunning, monitoringInterval, timers, starts, checks, run, clock,
                 platform, lastError, burst, phase, lastCall, appended, pomodoro,
                   pomodoroTimer, ocr>>

NextScore ==
  \/ CallCalculateMatchScore
  \/ CallNormalizeBasic

SpecScore == InitScore /\ [][NextScore]_vars

\* A caller of the list functions of AppNameNormalizer, holding a target and a
\* list of candidates.
InitMatch ==
  /\ store = initialState
  /\ isRunning = FALSE
  /\ monitoringInterval = 0
  /\ timers = {}
  /\ starts = 0
  /\ checks = {}
  /\ run = Idle
  /\ clock = 1
  /\ platform = [activeWindow |-> TRUE, processList |-> TRUE]
  /\ lastError = ""
  /\ burst = 0
  /\ phase = "none"
  /\ lastCall = "none"
  /\ appended = <<>>
  /\ \E target \in MatchTargets, candidates \in CandidateLists :
       probe = [NoProbe EXCEPT !.target = target, !.candidates = candidates]
  /\ pomodoro = pomodoroInitialState
  /\ pomodoroTimer = NoTimer
  /\ ocr = NoOcr

\* AppNameNormalizer.findBestMatch(target, candidates)
CallFindBestMatch ==
  /\ ~probe.found
  /\ probe' = [probe EXCEPT !.found = TRUE,
                            !.best = findBestMatch(probe.target, probe.candidates)]
  /\ UNCHANGED <<store, isRunning, monitoringInterval, timers, starts, checks, run, clock,
                 platform, lastError, burst, phase, lastCall, appended, pomodoro,
                   pomodoroTimer, ocr>>

\* AppNameNormalizer.findAllMatches(target, candidates, threshold)
CallFindAllMatches ==
  \E threshold \in Thresholds :
    /\ ~probe.listed
    /\ probe' = [probe EXCEPT !.listed = TRUE,
                              !.threshold = threshold,
                              !.all = findAllMatches(probe.target, probe.candidates, threshold)]
    /\ UNCHANGED <<store, isRunning, monitoringInterval, timers, starts, checks, run, clock,
                   platform, lastError, burst, phase, lastCall, appended, pomodoro,
                   pomodoroTimer, ocr>>

\* AppNameNormalizer.suggestAppNames(partial, availableApps, maxSuggestions)
CallSuggestAppNames ==
  \E maxSuggestions \in SuggestionLimits :
    /\ ~probe.suggested
    /\ probe' = [probe EXCEPT !.suggested = TRUE,
                              !.maxSuggestions = maxSuggestions,
                              !.suggestions = suggestAppNames(probe.target, probe.candidates,
                                                              maxSuggestions)]
    /\ UNCHANGED <<store, isRunning, monitoringInterval, timers, starts, checks, run, clock,
                   platform, lastError, burst, phase, lastCall, appended, pomodoro,
                   pomodoroTimer, ocr>>

NextMatch ==
  \/ CallFindBestMatch
  \/ CallFindAllMatches
  \/ CallSuggestAppNames

SpecMatch == InitMatch /\ [][NextMatch]_vars

\* The log reducers alone, under appends and clears in any order.
NextLog ==
  \/ AppendLog
  \/ handleClearLogs

SpecLog == Init /\ [][NextLog]_vars

\* A monitor that was started on a supported platform, with the lists the user
\* built, and waits for its first timer.
InitCheck ==
  /\ \E allowed \in AllowedLists, blocked \in BlockedLists :
       store = [initialState EXCEPT !.taskDescription = SomeTask,
                                    !.allowedApps = allowed,
                                    !.blockedApps = blocked,
                                    !.isActive = TRUE]
  /\ isRunning = TRUE
  /\ monitoringInterval = 1
  /\ timers = {[id |-> 1, delay |-> 60000]}
  /\ starts = 0
  /\ checks = {}
  /\ run = Idle
  /\ clock = 1
  /\ platform = [activeWindow |-> TRUE, processList |-> TRUE]
  /\ lastError = ""
  /\ burst = 0
  /\ phase = "started"
  /\ lastCall = "startMonitoring"
  /\ appended = <<>>
  /\ probe = NoProbe
  /\ pomodoro = pomodoroInitialState
  /\ pomodoroTimer = NoTimer
  /\ ocr = NoOcr

\* The scheduled checks of that monitor, and the two resets of the store.
NextCheck ==
  \/ TimerFires
  \/ CheckSettles
  \/ DispatchSetLastCheckTime
  \/ DispatchAddLog
  \/ DispatchIncrementTotalChecks
  \/ DispatchIncrementFocusedOrDistracted
  \/ CatchAddLog
  \/ ScheduleAfterCheck
  \/ handleClearLogs
  \/ ResetStatistics

SpecCheck == InitCheck /\ [][NextCheck]_vars

\* A running monitor whose configuration the page edits between and during
\* its checks.
NextPage ==
  \/ TimerFires
  \/ CheckSettles
  \/ DispatchSetLastCheckTime
  \/ DispatchAddLog
  \/ DispatchIncrementTotalChecks
  \/ DispatchIncrementFocusedOrDistracted
  \/ CatchAddLog
  \/ ScheduleAfterCheck
  \/ handleFrequencyChange
  \/ handleAddAllowedApp
  \/ handleRemoveAllowedApp
  \/ handleAddBlockedApp
  \/ handleRemoveBlockedApp

SpecPage == InitCheck /\ [][NextPage]_vars

\* A running monitor that is never stopped, while the page edits the interval
\* and the blocked list. The event loop runs every due timer callback and every
\* continuation of a settled promise, so each step of the check loop is weakly
\* fair; the page's handlers need not happen.
NextLive ==
  \/ TimerFires
  \/ CheckSettles
  \/ DispatchSetLastCheckTime
  \/ DispatchAddLog
  \/ DispatchIncrementTotalChecks
  \/ DispatchIncrementFocusedOrDistracted
  \/ CatchAddLog
  \/ ScheduleAfterCheck
  \/ handleFrequencyChange
  \/ handleAddBlockedApp
  \/ handleRemoveBlockedApp

SpecLive ==
  /\ InitCheck
  /\ [][NextLive]_vars
  /\ WF_vars(TimerFires)
  /\ WF_vars(CheckSettles)
  /\ WF_vars(DispatchSetLastCheckTime)
  /\ WF_vars(DispatchAddLog)
  /\ WF_vars(DispatchIncrementTotalChecks)
  /\ WF_vars(DispatchIncrementFocusedOrDistracted)
  /\ WF_vars(CatchAddLog)
  /\ WF_vars(ScheduleAfterCheck)

\* ------------------------------------ PomodoroTimerService, its callers

\* The variables of the focus monitor and of the name matcher.
monitorVars ==
  <<store, isRunning, monitoringInterval, timers, starts, checks, run, clock,
    platform, lastError, burst, phase, lastCall, appended, probe>>

\* Settings a user has saved: minutes per phase and the long-break interval.
SavedSettings ==
  { [ workDuration |-> 1, shortBreakDuration |-> 1, longBreakDuration |-> 2,
      longBreakInterval |-> 2 ],
    [ workDuration |-> 1, shortBreakDuration |-> 2, longBreakDuration |-> 1,
      longBreakInterval |-> 3 ] }

\* The pomodoro page after the user saved settings (usePomodoroSettings
\* dispatches setPomodoroState) and reset the timer, which reads them.
InitPomodoro ==
  /\ store = initialState
  /\ isRunning = FALSE
  /\ monitoringInterval = 0
  /\ timers = {}
  /\ starts = 0
  /\ checks = {}
  /\ run = Idle
  /\ clock = 1
  /\ platform = [activeWindow |-> TRUE, processList |-> TRUE]
  /\ lastError = ""
  /\ burst = 0
  /\ phase = "none"
  /\ lastCall = "none"
  /\ appended = <<>>
  /\ probe = NoProbe
  /\ \E settings \in SavedSettings :
       pomodoro = setTimeLeft(setPomodoroState(pomodoroInitialState, settings),
                              OrElse(settings.workDuration, 25) * 60)
  /\ pomodoroTimer = NoTimer
  /\ ocr = NoOcr

\* setInterval returns an id no armed interval has.
FreshInterval == CHOOSE i \in 1..MaxIntervals : i \notin pomodoroTimer.intervals

\* clearInterval(): the service after it.
clearIntervalOf(timer) ==
  IF timer.intervalId # 0
  THEN [timer EXCEPT !.intervals = @ \ {timer.intervalId}, !.intervalId = 0]
  ELSE timer

\* PomodoroTimerService.getInstance().start()
start ==
  /\ pomodoroTimer.intervals # 1..MaxIntervals
  /\ IF pomodoroTimer.intervalId # 0
     THEN /\ pomodoroTimer' = [pomodoroTimer EXCEPT !.lastOp = "start"]
          /\ UNCHANGED pomodoro
     ELSE /\ pomodoro' = setIsRunning(pomodoro, TRUE)
          /\ pomodoroTimer' = [pomodoroTimer EXCEPT !.intervalId = FreshInterval,
                                                    !.intervals = @ \cup {FreshInterval},
                                                    !.lastOp = "start"]
  /\ UNCHANGED <<monitorVars, ocr>>

\* PomodoroTimerService.getInstance().pause()
pause ==
  /\ pomodoro' = setIsRunning(pomodoro, FALSE)
  /\ pomodoroTimer' = [clearIntervalOf(pomodoroTimer) EXCEPT !.lastOp = "pause"]
  /\ UNCHANGED <<monitorVars, ocr>>

\* PomodoroTimerService.getInstance().stop()
stop ==
  /\ pomodoro' = setTimeLeft(setCurrentPhase(setIsRunning(pomodoro, FALSE), "work"),
                             OrElse(pomodoro.settings.workDuration, 25) * 60)
  /\ pomodoroTimer' = [clearIntervalOf(pomodoroTimer) EXCEPT !.lastOp = "stop"]
  /\ UNCHANGED <<monitorVars, ocr>>

\* PomodoroTimerService.getInstance().reset()
reset ==
  /\ pomodoro' = setTimeLeft(
                   setCurrentPhase(setWorkCount(setIsRunning(pomodoro, FALSE), 0), "work"),
                   OrElse(pomodoro.settings.workDuration, 25) * 60)
  /\ pomodoroTimer' = [clearIntervalOf(pomodoroTimer) EXCEPT !.lastOp = "reset"]
  /\ UNCHANGED <<monitorVars, ocr>>

\* PomodoroTimerService.getInstance().skipPhase()
skipPhase ==
  /\ pomodoro.currentPhase = "work" => pomodoro.sessions < MaxSessions
  /\ pomodoro' =
       IF pomodoro.currentPhase = "work"
       THEN setTimeLeft(
              setCurrentPhase(
                setWorkCount(incrementPomodoroCount(pomodoro), pomodoro.workCount + 1),
                BreakAfter(pomodoro, pomodoro.workCount + 1)),
              BreakDuration(pomodoro, BreakAfter(pomodoro, pomodoro.workCount + 1)))
       ELSE setTimeLeft(setCurrentPhase(pomodoro, "work"),
                        OrElse(pomodoro.settings.workDuration, 25) * 60)
  /\ pomodoroTimer' = [pomodoroTimer EXCEPT !.lastOp = "skipPhase"]
  /\ UNCHANGED <<monitorVars, ocr>>

\* An armed interval fires: tick(), and handlePhaseCompleted when the time
\* left reaches 0.
tick ==
  /\ pomodoroTimer.intervals # {}
  /\ (pomodoro.currentPhase = "work" /\ pomodoro.timeLeft = 1)
       => pomodoro.sessions < MaxSessions
  /\ pomodoro' =
       IF ~pomodoro.isRunning \/ pomodoro.timeLeft <= 0
       THEN pomodoro
       ELSE IF Max(0, pomodoro.timeLeft - 1) = 0
            THEN handlePhaseCompleted(setTimeLeft(pomodoro, Max(0, pomodoro.timeLeft - 1)),
                                      pomodoro.currentPhase = "work")
            ELSE setTimeLeft(pomodoro, Max(0, pomodoro.timeLeft - 1))
  /\ pomodoroTimer' = [pomodoroTimer EXCEPT !.lastOp = "tick"]
  /\ UNCHANGED <<monitorVars, ocr>>

\* PomodoroTimerService.getInstance().destroy(); the next getInstance()
\* constructs a service with no interval.
destroy ==
  /\ pomodoroTimer' = [clearIntervalOf(pomodoroTimer) EXCEPT !.intervalId = 0,
                                                              !.lastOp = "destroy"]
  /\ UNCHANGED <<pomodoro, monitorVars, ocr>>

NextPomodoro ==
  \/ start
  \/ pause
  \/ stop
  \/ reset
  \/ skipPhase
  \/ tick
  \/ destroy

SpecPomodoro == InitPomodoro /\ [][NextPomodoro]_vars

\* ------------------------------------------------ OCRService, its callers

\* initializeTesseract(), up to the await in doInitialization: a caller that
\* finds no promise starts one creation; a caller that finds one waits for it.
initializeTesseract(service) ==
  IF service.initializationPromise # 0
  THEN service
  ELSE [service EXCEPT !.initializationPromise = service.created + 1,
                       !.created = @ + 1,
                       !.pending = @ \cup {service.created + 1}]

\* OCRService.getInstance().isSupported(), up to its await. What follows the
\* await only reads the fields.
ocrIsSupported ==
  /\ (~ocr.isInitialized /\ ocr.initializationPromise = 0) => ocr.created < MaxWorkers
  /\ ocr' = IF ~ocr.isInitialized THEN initializeTesseract(ocr) ELSE ocr
  /\ UNCHANGED <<monitorVars, pomodoro, pomodoroTimer>>

\* OCRService.getInstance().extractText(imageData): it awaits isSupported()
\* first, and then only reads the worker.
ocrExtractText ==
  /\ (~ocr.isInitialized /\ ocr.initializationPromise = 0) => ocr.created < MaxWorkers
  /\ ocr' = IF ~ocr.isInitialized THEN initializeTesseract(ocr) ELSE ocr
  /\ UNCHANGED <<monitorVars, pomodoro, pomodoroTimer>>

\* Tesseract.createWorker resolves: doInitialization goes on after its await.
createWorkerResolves ==
  \E p \in ocr.pending :
    /\ ocr' = [ocr EXCEPT !.pending = @ \ {p},
                          !.live = @ \cup {p},
                          !.worker = p,
                          !.isInitialized = TRUE]
    /\ UNCHANGED <<monitorVars, pomodoro, pomodoroTimer>>

\* Tesseract.createWorker rejects: the catch block of doInitialization.
createWorkerRejects ==
  \E p \in ocr.pending :
    /\ ocr' = [ocr EXCEPT !.pending = @ \ {p},
                          !.isInitialized = FALSE,
                          !.worker = 0]
    /\ UNCHANGED <<monitorVars, pomodoro, pomodoroTimer>>

\* OCRService.getInstance().cleanup(), up to its await: with a worker it
\* waits for terminate(); with none it runs to its end.
ocrCleanup ==
  /\ ocr' = IF ocr.worker # 0
            THEN [ocr EXCEPT !.terminating = @ \cup {ocr.worker}]
            ELSE [ocr EXCEPT !.isInitialized = FALSE, !.initializationPromise = 0]
  /\ UNCHANGED <<monitorVars, pomodoro, pomodoroTimer>>

\* worker.terminate() settles: cleanup goes on after its await.
terminateSettles ==
  \E w \in ocr.terminating :
    /\ ocr' = [ocr EXCEPT !.terminating = @ \ {w},
                          !.live = @ \ {w},
                          !.worker = 0,
                          !.isInitialized = FALSE,
                          !.initializationPromise = 0]
    /\ UNCHANGED <<monitorVars, pomodoro, pomodoroTimer>>

NextOcr ==
  \/ ocrIsSupported
  \/ ocrExtractText
  \/ createWorkerResolves
  \/ createWorkerRejects
  \/ ocrCleanup
  \/ terminateSettles

SpecOcr == Init /\ [][NextOcr]_vars

\* --------------------------------------------------------------- claims

\* The state the scheduler is in, read off the service's two fields: Scheduled
\* while the timer monitoringInterval names is armed, Checking once it fired.
MonitorState ==
  IF ~isRunning THEN "Stopped"
  ELSE IF \E t \in timers : t.id = monitoringInterval THEN "Scheduled"
  ELSE "Checking"

\* What a check records in the store.
Recorded(state) == <<state.logs, state.statistics, state.lastCheckTime>>

IsErrorLog(entry) == entry.reason[1] = "monitoring check failed"

\* C1: single-flight.  In every reachable state at most one invocation of
\* analyzeCurrentFocus has started and not yet completed.
C1_SingleFlight == Cardinality(checks) <= 1

\* C2: a check that was in flight when stopMonitoring was called is discarded
\* when it completes: no step of its continuation changes the log, the
\* statistics or lastCheckTime.
C2_DiscardedAfterStop ==
  [][(Busy /\ run.stopped) => Recorded(store') = Recorded(store)]_vars

\* C3: a check of an earlier run that completes after stopMonitoring and
\* startMonitoring were both called is not applied: its continuation records
\* nothing and arms no timer.
C3_StaleCheckNotApplied ==
  [][(Busy /\ run.restarted /\ isRunning) =>
       (Recorded(store') = Recorded(store) /\ timers' = timers)]_vars

\* C4: two valid startMonitoring calls made back to back from rest on a
\* supported platform, both resumed, leave exactly one armed timer and the
\* monitor Scheduled.
C4_StartTwiceOneTimer ==
  (burst = 2 /\ starts = 0 /\ isSupported(platform)) =>
    (Cardinality(timers) = 1 /\ MonitorState = "Scheduled")

\* C5: once stopMonitoring was called after the first startMonitoring call and
\* before a timer fired, and startMonitoring was not called again, no check is
\* recorded: the log stays empty and totalChecks stays 0.
C5_StopBeforeFirstFire ==
  phase = "stopped" => (store.logs = <<>> /\ store.statistics.totalChecks = 0)

\* C6: the catch block of a check appends exactly one log entry, and that
\* entry has isFocused = TRUE (fail-open).
C6_FailOpenEntry ==
  [][run.pc = "catch" =>
       /\ Len(store'.logs) = Len(store.logs) + 1
       /\ store'.logs[Len(store'.logs)].isFocused]_vars

\* C7: an error inside a check does not stop the monitor and does not escape:
\* no step of a failed check's continuation changes isRunning or throws, and
\* unless stopMonitoring was called meanwhile its last step leaves the monitor
\* Scheduled with a newly armed one-shot timer.
C7_ErrorContained ==
  [][(Busy /\ run.failed) =>
       /\ isRunning' = isRunning
       /\ lastError' = lastError
       /\ run.pc = "catch" => run'.pc = "scheduleNextCheck"
       /\ (run.pc = "scheduleNextCheck" /\ ~run.stopped) =>
            /\ run' = Idle
            /\ isRunning'
            /\ MonitorState' = "Scheduled"
            /\ \E t \in timers' \ timers : t.id = monitoringInterval']_vars

\* C7's case: a failed check has been logged, and the monitor is Scheduled.
C7_Witness ==
  /\ ~Busy
  /\ Len(store.logs) > 0
  /\ IsErrorLog(store.logs[Len(store.logs)])
  /\ MonitorState = "Scheduled"

\* C8: when the continuation of a check has made its dispatches and the
\* monitor is running, the check has appended exactly one log entry, raised
\* totalChecks by 1, and raised by 1 the one of focusedChecks and
\* distractedChecks that matches the entry's isFocused.
C8_EveryCheckCounted ==
  (run.pc = "scheduleNextCheck" /\ isRunning) =>
    /\ Len(store.logs) = Len(run.before.logs) + 1
    /\ SubSeq(store.logs, 1, Len(run.before.logs)) = run.before.logs
    /\ store.statistics.totalChecks = run.before.statistics.totalChecks + 1
    /\ LET entry == store.logs[Len(store.logs)]
       IN  /\ store.statistics.focusedChecks =
                run.before.statistics.focusedChecks + (IF entry.isFocused THEN 1 ELSE 0)
           /\ store.statistics.distractedChecks =
                run.before.statistics.distractedChecks + (IF entry.isFocused THEN 0 ELSE 1)

\* C9: in every store state, those between the dispatches of one check too,
\* totalChecks = focusedChecks + distractedChecks.
C9_TotalIsSum ==
  store.statistics.totalChecks =
    store.statistics.focusedChecks + store.statistics.distractedChecks

Lowered(old, new) ==
  \/ new.totalChecks < old.totalChecks
  \/ new.focusedChecks < old.focusedChecks
  \/ new.distractedChecks < old.distractedChecks

\* C10: no step lowers totalChecks, focusedChecks or distractedChecks, except
\* the dispatch of resetStatistics, which leaves all three 0.
C10_CountersMonotone ==
  [][Lowered(store.statistics, store'.statistics) =>
       /\ ResetStatistics
       /\ store'.statistics = [totalChecks |-> 0, focusedChecks |-> 0, distractedChecks |-> 0]]_vars

\* C10's case: two checks were recorded and counted, with a reset between them.
C10_Witness ==
  /\ ~Busy
  /\ Len(store.logs) = 2
  /\ \A i \in 1..2 : ~IsErrorLog(store.logs[i])
  /\ store.statistics.totalChecks = 1

\* C11: in every store state the log holds at most 100 entries.
C11_LogBounded == Len(store.logs) <= 100

\* More than 100 entries were appended since the last clear and the log is full.
C11_Witness == Len(appended) > 100 /\ Len(store.logs) = 100

\* The last n entries of a sequence.
LastN(seq, n) == SubSeq(seq, Len(seq) - n + 1, Len(seq))

\* C12: after n appends with no clearLogs in between the log is exactly the last
\* min(n, 100) appended entries, in the order of their insertion.
C12_LastHundredInOrder ==
  store.logs = LastN(appended, IF Len(appended) < 100 THEN Len(appended) ELSE 100)

\* 150 appends in a row: the log is appends 51..150, in order.
C12_Witness ==
  /\ Len(appended) = 150
  /\ Len(store.logs) = 100
  /\ \A i \in 1..100 : store.logs[i].timestamp = appended[50 + i].timestamp
  /\ \A i \in 1..99 : store.logs[i].timestamp < store.logs[i + 1].timestamp

ZeroStatistics == [totalChecks |-> 0, focusedChecks |-> 0, distractedChecks |-> 0]

\* C13: clearLogs empties the log and changes no other field of the store
\* (statistics, lastCheckTime, isActive, the configuration); resetStatistics
\* zeroes the three counters and changes no other field.
C13_ResetFrames ==
  [][ /\ handleClearLogs =>
           /\ store'.logs = <<>>
           /\ \A f \in DOMAIN store \ {"logs"} : store'[f] = store[f]
      /\ ResetStatistics =>
           /\ store'.statistics = ZeroStatistics
           /\ \A f \in DOMAIN store \ {"statistics"} : store'[f] = store[f] ]_vars

\* The log was cleared after a check was counted, and the count is still there.
C13_Witness ==
  /\ store.logs = <<>>
  /\ appended = <<>>
  /\ store.statistics.totalChecks > 0
  /\ store.lastCheckTime > 0
  /\ store.isActive

\* The larger of two scores.
RatMax(x, y) == IF RatGt(x, y) THEN x ELSE y

\* The best score of target against the entries of a list, 0 for the empty list.
RECURSIVE BestScore(_, _)
BestScore(target, candidates) ==
  IF candidates = <<>> THEN Rat(0, 1)
  ELSE RatMax(calculateMatchScore(target, Head(candidates)),
              BestScore(target, Tail(candidates)))

\* The step in which the scheduled check c completes with a decision.
Decides(c) == ~Busy /\ run'.pc = "setLastCheckTime" /\ c \in checks /\ c \notin checks'

\* The active application of check c is above the threshold on its blocked list.
IsBlocked(c, app) ==
  c.blockedApps # <<>> /\ RatGt(BestScore(app, c.blockedApps), Threshold)

\* C18: when an application is detected and its best match against a non-empty
\* blocked list scores above 0.6, the decision is Distracted, whatever the
\* allowed list holds.
C18_BlockedFirst ==
  [][\A c \in checks :
       (Decides(c) /\ run'.provided # <<>> /\ IsBlocked(c, run'.provided))
         => ~run'.result.isFocused]_vars

\* WeChat.exe is active, WeChat is both blocked and allowed: Distracted.
C18_Witness ==
  /\ run.pc = "setLastCheckTime"
  /\ run.provided = WeChatExe
  /\ Includes(store.blockedApps, WeChat)
  /\ Includes(store.allowedApps, WeChat)
  /\ ~run.result.isFocused

\* C19: when an application is detected, is not blocked, and the allowed list
\* is non-empty, the decision is Distracted exactly when the best score of the
\* application against the allowed list is at most 0.6, and Focused otherwise.
C19_AllowedDecides ==
  [][\A c \in checks :
       (/\ Decides(c)
        /\ run'.provided # <<>>
        /\ ~IsBlocked(c, run'.provided)
        /\ c.allowedApps # <<>>)
         => (run'.result.isFocused
               <=> RatGt(BestScore(run'.provided, c.allowedApps), Threshold))]_vars

\* WeChat.exe is active, nothing is blocked, only vscode is allowed: Distracted.
C19_Witness ==
  /\ run.pc = "setLastCheckTime"
  /\ run.provided = WeChatExe
  /\ store.blockedApps = <<>>
  /\ store.allowedApps = <<VSCode>>
  /\ ~run.result.isFocused

\* C20: when the provider reports no active application the decision is
\* Focused, whatever the two lists hold, and the log entry has no activeApp.
C20_NoAppFocused ==
  /\ (run.pc \in {"setLastCheckTime", "addLog"} /\ run.provided = <<>>)
       => (run.result.isFocused /\ run.result.activeApp = <<>>)
  /\ (run.pc = "incrementTotalChecks" /\ run.provided = <<>>)
       => /\ Len(store.logs) > 0
          /\ store.logs[Len(store.logs)].isFocused
          /\ store.logs[Len(store.logs)].activeApp = <<>>

\* No application was detected while both lists were non-empty, and the entry
\* is in the log.
C20_Witness ==
  /\ run.pc = "incrementTotalChecks"
  /\ run.provided = <<>>
  /\ store.blockedApps # <<>>
  /\ store.allowedApps # <<>>
  /\ store.logs[Len(store.logs)].isFocused

\* C14: once stopMonitoring was called on a running monitor, and until
\* startMonitoring is called again, no timer is armed, the monitor is Stopped
\* and no new check begins.
C14_StopHalts ==
  [][ /\ lastCall' = "stopMonitoring:running"
           => (timers' = {} /\ MonitorState' = "Stopped")
      /\ (lastCall = "stopMonitoring:running" /\ lastCall' = lastCall)
           => Cardinality(checks') <= Cardinality(checks) ]_vars

\* C15: startMonitoring called on a running monitor arms no timer, cancels no
\* timer, raises no error and changes no field of the store.
C15_StartWhileRunningNoOp ==
  [][(startMonitoring /\ isRunning)
       => /\ UNCHANGED <<timers, monitoringInterval, store, isRunning, starts>>
          /\ lastError' = ""]_vars

\* startMonitoring was called on a Scheduled monitor, whose timer is still armed.
C15_Witness ==
  /\ lastCall = "startMonitoring:running"
  /\ MonitorState = "Scheduled"
  /\ Cardinality(timers) = 1
  /\ lastError = ""

\* C16: startMonitoring with an empty task description throws to its caller
\* and leaves the monitor Stopped: it arms no timer, and isActive, the log and
\* the statistics stay as they were.
C16_EmptyTaskRejected ==
  [][(startMonitoring /\ ~isRunning /\ Trim(store.taskDescription) = <<>>)
       => /\ lastError' = "Task description is required"
          /\ MonitorState' = "Stopped"
          /\ UNCHANGED <<timers, monitoringInterval, starts>>
          /\ store'.isActive = store.isActive
          /\ Recorded(store') = Recorded(store)]_vars

\* The call failed on a blank description; nothing is armed, isActive is false.
C16_Witness ==
  /\ lastError = "Task description is required"
  /\ lastCall = "startMonitoring"
  /\ store.taskDescription = Blank
  /\ timers = {}
  /\ starts = 0
  /\ ~store.isActive
  /\ MonitorState = "Stopped"

\* C17: startMonitoring on a platform that isSupported() reports as not
\* supported throws to its caller and leaves the monitor Stopped: no timer is
\* armed and isActive stays false.
C17_UnsupportedRejected ==
  [][(startMonitoringResume /\ ~isSupported(platform))
       => /\ lastError' = "System app detection not supported on this platform"
          /\ MonitorState' = "Stopped"
          /\ timers' = {}
          /\ monitoringInterval' = 0
          /\ ~store'.isActive]_vars

\* The call failed on a platform that lacks one of the two IPC functions.
C17_Witness ==
  /\ lastError = "System app detection not supported on this platform"
  /\ platform.activeWindow
  /\ ~platform.processList
  /\ starts = 0
  /\ timers = {}
  /\ ~store.isActive

\* C21: when both the allowed and the blocked list are empty at the time a
\* check begins, its decision is Focused, whichever application is active.
C21_EmptyListsFocused ==
  [][\A c \in checks :
       (Decides(c) /\ c.allowedApps = <<>> /\ c.blockedApps = <<>>)
         => /\ run'.result.isFocused
            /\ run'.result.activeApp = run'.provided]_vars

\* WeChat.exe is active while both lists are empty: Focused.
C21_Witness ==
  /\ run.pc = "setLastCheckTime"
  /\ run.provided = WeChatExe
  /\ run.before.allowedApps = <<>>
  /\ run.before.blockedApps = <<>>
  /\ run.result.isFocused
  /\ run.result.activeApp = WeChatExe

\* Focused or not, from the lists of check c alone: no application, or an
\* application that is not blocked and, when anything is allowed, is allowed.
SnapshotFocused(c, app) ==
  \/ app = <<>>
  \/ /\ ~IsBlocked(c, app)
     /\ \/ c.allowedApps = <<>>
        \/ RatGt(BestScore(app, c.allowedApps), Threshold)

\* C22: a check decides with the allowed and blocked lists the store held when
\* the check began, whatever was dispatched while it awaited the provider; a
\* check that begins takes the lists the store holds at that moment.
C22_SnapshotDecides ==
  [][/\ \A c \in checks :
          Decides(c) => (run'.result.isFocused <=> SnapshotFocused(c, run'.provided))
     /\ \A c \in checks' \ checks :
          c.allowedApps = store.allowedApps /\ c.blockedApps = store.blockedApps]_vars

\* WeChat was blocked while the check awaited the provider, which then reported
\* WeChat.exe: the check, begun with an empty blocked list, decided Focused.
C22_Witness ==
  /\ run.pc = "setLastCheckTime"
  /\ run.provided = WeChatExe
  /\ run.before.blockedApps = <<WeChat>>
  /\ store.blockedApps = <<WeChat>>
  /\ run.result.isFocused

\* C23: no timer is armed with a delay of zero or less, whatever
\* setMonitoringFrequency stored.
C23_PositiveDelay == \A t \in timers : t.delay > 0

\* C24: on a monitor that was started and is never stopped, whose timers fire
\* and whose provider calls resolve or fail, another check is always recorded:
\* from k recorded checks the log reaches k + 1, for every k the clock allows.
C24_ChecksKeepComing ==
  \A k \in 0..(MaxClock - 2) : (Len(appended) = k) ~> (Len(appended) = k + 1)

\* Every check the clock allows was recorded, the last one after a failure of
\* the provider, and the next timer is armed.
C24_Witness ==
  /\ Len(appended) = MaxClock - 1
  /\ IsErrorLog(appended[Len(appended)])
  /\ isRunning
  /\ run = Idle
  /\ Cardinality(timers) = 1

\* C25: calculateMatchScore returns a value in [0, 1] for every pair of names.
C25_ScoreInUnitInterval ==
  probe.scored => (RatGe(probe.score, Rat(0, 1)) /\ RatGe(Rat(1, 1), probe.score))

\* A pair scored by the word tier, a pair scored by the fuzzy tier and a pair
\* scored 0 were each scored, strictly inside or on the edge of the interval.
C25_Witness ==
  /\ probe.scored
  /\ \/ probe.target = OneNotePad /\ probe.candidate = PadNoteOne /\ probe.score = <<3, 4>>
     \/ probe.target = Slack /\ probe.candidate = Slakc /\ probe.score = <<203, 250>>
  /\ probe.reverse \in {<<0, 1>>, <<203, 250>>}

\* C26: calculateMatchScore(x, x) is 1.0 for every non-empty name x.
C26_SelfScoreIsOne ==
  (probe.scored /\ probe.target = probe.candidate /\ probe.target # <<>>)
    => probe.score = <<1, 1>>

\* A name that normalizes to the empty string was scored against itself.
C26_Witness ==
  /\ probe.scored
  /\ probe.target = Bangs
  /\ probe.candidate = Bangs
  /\ probe.score = <<1, 1>>

\* C27, as claimed: calculateMatchScore("code", "visual studio code") differs
\* from calculateMatchScore("visual studio code", "code").
C27_DocumentedPairDiffers ==
  (probe.scored /\ probe.target = Code /\ probe.candidate = VisualStudioCode)
    => probe.score # probe.reverse

\* C27, amended: "code" is an alias of "visual studio code", so the pair scores
\* 1.0 in both directions; the score is direction-sensitive on a pair that no
\* alias joins: "studio" against "visual studio code" scores 0.9, and 0.85 the
\* other way round.
C27_DirectionSensitive ==
  /\ (probe.scored /\ probe.target = Code /\ probe.candidate = VisualStudioCode)
       => (probe.score = <<1, 1>> /\ probe.reverse = <<1, 1>>)
  /\ (probe.scored /\ probe.target = Studio /\ probe.candidate = VisualStudioCode)
       => (probe.score = <<9, 10>> /\ probe.reverse = <<17, 20>>)

\* "studio" was scored against "visual studio code" in both directions, with
\* two different scores.
C27_Witness ==
  /\ probe.scored
  /\ probe.target = Studio
  /\ probe.candidate = VisualStudioCode
  /\ probe.score # probe.reverse

\* C28: calculateMatchScore returns 0 when the target or the candidate is the
\* empty string.
C28_EmptyScoresZero ==
  (probe.scored /\ (probe.target = <<>> \/ probe.candidate = <<>>))
    => probe.score = <<0, 1>>

\* The empty string was scored as target against "code", and "code" as target
\* against the empty string: 0 both times.
C28_Witness ==
  /\ probe.scored
  /\ probe.target = <<>>
  /\ probe.candidate = Code
  /\ probe.score = <<0, 1>>
  /\ probe.reverse = <<0, 1>>

\* The share of the target's words that contain, or are contained in, a word
\* of the candidate, over the larger of the two word counts.
WordRatio(targetWords, candidateWords) ==
  Rat(Cardinality({i \in DOMAIN targetWords :
                     \E k \in DOMAIN candidateWords :
                        \/ StrIncludes(candidateWords[k], targetWords[i])
                        \/ StrIncludes(targetWords[i], candidateWords[k])}),
      Max(Len(targetWords), Len(candidateWords)))

\* 0.4 * Levenshtein similarity + 0.6 * Jaro-Winkler similarity
FuzzyValue(ct, cc) ==
  RatAdd(RatMul(Rat(4, 10),
                RatSub(Rat(1, 1), Rat(levenshteinDistance(ct, cc), Max(Len(ct), Len(cc))))),
         RatMul(Rat(6, 10), jaroWinklerSimilarity(ct, cc)))

\* The word tier of the pair: whether it applies, and its value.
WordTier(ct, cc) ==
  IF Words(ct) # <<>> /\ Words(cc) # <<>> /\ RatGt(WordRatio(Words(ct), Words(cc)), Rat(1, 2))
  THEN <<TRUE, RatAdd(Rat(6, 10), RatMul(Rat(15, 100), WordRatio(Words(ct), Words(cc))))>>
  ELSE <<FALSE, Rat(0, 1)>>

\* The fuzzy tier of the pair, which always applies: its value, or 0.
FuzzyTier(ct, cc) ==
  IF Max(Len(ct), Len(cc)) > 0 /\ RatGt(FuzzyValue(ct, cc), Rat(6, 10))
  THEN <<TRUE, FuzzyValue(ct, cc)>>
  ELSE <<TRUE, Rat(0, 1)>>

\* The tiers in their fixed order, for normalized names nt, nc and canonical
\* names ct, cc: whether each applies, and the value it gives.
Tiers(nt, nc, ct, cc) ==
  << <<ct = cc, Rat(1, 1)>>,
     <<nt = nc, Rat(95, 100)>>,
     <<StrIncludes(cc, ct), Rat(9, 10)>>,
     <<StrIncludes(ct, cc), Rat(85, 100)>>,
     <<StrIncludes(nc, nt), Rat(8, 10)>>,
     <<StrIncludes(nt, nc), Rat(75, 100)>>,
     WordTier(ct, cc),
     FuzzyTier(ct, cc) >>

\* The value of the first tier that applies.
FirstApplicable(tiers) ==
  tiers[CHOOSE i \in DOMAIN tiers : tiers[i][1] /\ \A k \in 1..(i - 1) : ~tiers[k][1]][2]

\* C29: for non-empty names calculateMatchScore returns the value of the first
\* tier that applies, in the order canonical equality 1.0, normalized equality
\* 0.95, canonical containment 0.9 and 0.85, normalized containment 0.8 and
\* 0.75, word overlap 0.6 + 0.15 * ratio when the ratio is above 0.5, and the
\* fuzzy value when it is above 0.6, else 0; never the value of a later tier.
C29_FirstTierWins ==
  (probe.scored /\ probe.target # <<>> /\ probe.candidate # <<>>)
    => probe.score =
         FirstApplicable(Tiers(normalizeBasic(probe.target), normalizeBasic(probe.candidate),
                               getCanonicalName(normalizeBasic(probe.target)),
                               getCanonicalName(normalizeBasic(probe.candidate))))

\* "studio" was scored against "visual studio code": the canonical and the
\* normalized containment tiers both apply, and 0.9 was returned, not 0.8.
C29_Witness ==
  /\ probe.scored
  /\ probe.target = Studio
  /\ probe.candidate = VisualStudioCode
  /\ StrIncludes(getCanonicalName(normalizeBasic(VisualStudioCode)),
                 getCanonicalName(normalizeBasic(Studio)))
  /\ StrIncludes(normalizeBasic(VisualStudioCode), normalizeBasic(Studio))
  /\ probe.score = <<9, 10>>

\* C30: normalizeBasic applied to its own result returns that result, and
\* normalizeBasic("Google Chrome.exe") is "google chrome".
C30_NormalizeIdempotent ==
  /\ probe.calls = 2 => probe.twice = probe.once
  /\ (probe.calls >= 1 /\ probe.target = GoogleChromeExe)
       => probe.once = <<"g","o","o","g","l","e"," ","c","h","r","o","m","e">>

\* "Foo.app.exe" was normalized to "foo app", which still ends in the letters
\* of an extension, and normalized again to the same string.
C30_Witness ==
  /\ probe.calls = 2
  /\ probe.target = FooAppExe
  /\ probe.once = <<"f","o","o"," ","a","p","p">>
  /\ probe.twice = probe.once

\* The first candidate, in input order, whose score against target is max.
FirstAttaining(target, candidates, max) ==
  candidates[CHOOSE i \in DOMAIN candidates :
               /\ calculateMatchScore(target, candidates[i]) = max
               /\ \A k \in 1..(i - 1) : calculateMatchScore(target, candidates[k]) # max]

\* What findBestMatch is to return when the largest score of the candidates
\* is max.
BestMatchIs(best, target, candidates, max) ==
  IF RatGt(max, Threshold)
  THEN /\ best.match # <<>>
       /\ best.score = max
       /\ best.match = FirstAttaining(target, candidates, max)
  ELSE /\ best.match = <<>>
       /\ best.score = <<0, 1>>

\* C31: findBestMatch returns a match exactly when some candidate scores above
\* 0.6; the score returned is then the largest score of the candidates and the
\* match is the first candidate, in input order, with that score; otherwise the
\* match is null and the score 0.
C31_BestMatch ==
  probe.found
    => BestMatchIs(probe.best, probe.target, probe.candidates,
                   BestScore(probe.target, probe.candidates))

\* Two candidates tie at 0.9 behind one that scores 0; the first of the two
\* is returned.
C31_Witness ==
  /\ probe.found
  /\ probe.target = OneLetter
  /\ probe.candidates = <<Studio, Slakc, VisualStudioCode>>
  /\ probe.best.match = Slakc
  /\ probe.best.score = <<9, 10>>

\* The positions of the candidates that score at least threshold against target.
Qualifying(target, candidates, threshold) ==
  {i \in DOMAIN candidates : RatGe(calculateMatchScore(target, candidates[i]), threshold)}

\* The list all holds the candidates at the positions kept, each once and with
\* its score, by descending score and, among equal scores, by position.
ListsExactly(all, target, candidates, kept) ==
  /\ Len(all) = Cardinality(kept)
  /\ \E at \in [DOMAIN all -> kept] :
       /\ \A j \in DOMAIN all :
            /\ all[j].app = candidates[at[j]]
            /\ all[j].score = calculateMatchScore(target, candidates[at[j]])
       /\ \A j, k \in DOMAIN all :
            j < k => \/ RatGt(all[j].score, all[k].score)
                     \/ all[j].score = all[k].score /\ at[j] < at[k]

\* C32: findAllMatches returns exactly the candidates that score at least the
\* threshold, by descending score, candidates of equal score in their input
\* order.
C32_AllMatches ==
  probe.listed
    => ListsExactly(probe.all, probe.target, probe.candidates,
                    Qualifying(probe.target, probe.candidates, probe.threshold))

\* Against "code" the three candidates score 0.85, 0 and 1.0: the list holds
\* the third, then the first.
C32_Witness ==
  /\ probe.listed
  /\ probe.target = Code
  /\ probe.candidates = <<Studio, Slakc, VisualStudioCode>>
  /\ Len(probe.all) = 2
  /\ probe.all[1].app = VisualStudioCode
  /\ probe.all[2].app = Studio

\* The suggestions are the first limit entries of the list all, without their
\* normalized names.
SameUpTo(suggestions, all, limit) ==
  /\ Len(suggestions) = Min(limit, Len(all))
  /\ \A j \in DOMAIN suggestions :
       suggestions[j].app = all[j].app /\ suggestions[j].score = all[j].score

\* Every score listed is above 0.6, even when the threshold asked for is 0.3.
ListedAboveThreshold == \A j \in DOMAIN probe.all : RatGt(probe.all[j].score, Threshold)

\* C35, as claimed: no score lies in (0, 0.6], and suggestAppNames returns the
\* result of findAllMatches with threshold 0.6, cut to maxSuggestions.
C35_SuggestSameAsMatches ==
  /\ probe.listed => ListedAboveThreshold
  /\ (probe.listed /\ probe.threshold = Threshold /\ probe.suggested)
       => SameUpTo(probe.suggestions, probe.all, probe.maxSuggestions)

\* C35, amended: no score lies in (0, 0.6]; for a partial input of two or more
\* characters suggestAppNames returns the result of findAllMatches with
\* threshold 0.6, cut to maxSuggestions, and for a shorter one it returns
\* nothing.
C35_SuggestSameForLongPartial ==
  /\ probe.listed => ListedAboveThreshold
  /\ (probe.listed /\ probe.threshold = Threshold /\ probe.suggested
         /\ Len(probe.target) >= 2)
       => SameUpTo(probe.suggestions, probe.all, probe.maxSuggestions)
  /\ (probe.suggested /\ Len(probe.target) < 2) => probe.suggestions = <<>>

\* "Slack" against a list of three: two matches above 0.6, of which the one
\* suggestion asked for is the first.
C35_Witness ==
  /\ probe.listed
  /\ probe.threshold = Threshold
  /\ probe.suggested
  /\ probe.maxSuggestions = 1
  /\ probe.target = Slack
  /\ probe.candidates = <<Studio, Slakc, Slakc>>
  /\ Len(probe.all) = 2
  /\ Len(probe.suggestions) = 1
  /\ probe.suggestions[1].app = Slakc

C34_EmptyNormalizedScoresZero ==
  (probe.scored
     /\ (normalizeBasic(probe.target) = <<>>) # (normalizeBasic(probe.candidate) = <<>>))
    => probe.score = <<0, 1>>

\* C37: performManualCheck throws when the monitor is not running and begins no
\* check; when it runs it returns a result, or throws what the provider threw,
\* and neither its call nor its completion changes the log, a statistics
\* counter, lastCheckTime, or the armed timers.
C37_ManualCheckOnlyReturns ==
  [][/\ (performManualCheck /\ ~isRunning)
          => /\ lastError' = "Monitoring is not active"
             /\ UNCHANGED <<store, timers, monitoringInterval, checks>>
     /\ (performManualCheck /\ isRunning)
          => /\ lastError' = ""
             /\ UNCHANGED <<store, timers, monitoringInterval>>
     /\ ManualCheckSettles
          => UNCHANGED <<store, timers, monitoringInterval, isRunning>>]_vars

\* A manual check of a running monitor has completed, by throwing to its
\* caller: the timer is still armed and nothing was recorded.
C37_Witness ==
  /\ lastError = "analyzeCurrentFocus failed"
  /\ isRunning
  /\ checks = {}
  /\ Cardinality(timers) = 1
  /\ store.logs = <<>>
  /\ store.statistics.totalChecks = 0
  /\ store.lastCheckTime = 0

\* C33: the store's isActive is true exactly when the monitor is Scheduled or
\* Checking, that is, when the service's isRunning is true.
C33_ActiveIffRunning ==
  /\ store.isActive <=> MonitorState \in {"Scheduled", "Checking"}
  /\ store.isActive <=> isRunning

\* C38: under every sequence of start, pause, stop, reset, skipPhase, tick
\* and destroy, at most one interval timer is armed, and the store's
\* pomodoro.isRunning is true exactly when one is armed.
C38_RunningIffArmed ==
  /\ Cardinality(pomodoroTimer.intervals) <= 1
  /\ pomodoro.isRunning <=> pomodoroTimer.intervals # {}

\* A tick that brings a work phase to its end.
TickCompletesWork ==
  /\ pomodoroTimer'.lastOp = "tick"
  /\ pomodoro.isRunning
  /\ pomodoro.timeLeft = 1
  /\ pomodoro.currentPhase = "work"

\* A tick that brings a break to its end.
TickCompletesBreak ==
  /\ pomodoroTimer'.lastOp = "tick"
  /\ pomodoro.isRunning
  /\ pomodoro.timeLeft = 1
  /\ pomodoro.currentPhase # "work"

SkipsWork == pomodoroTimer'.lastOp = "skipPhase" /\ pomodoro.currentPhase = "work"

SkipsBreak == pomodoroTimer'.lastOp = "skipPhase" /\ pomodoro.currentPhase # "work"

\* The configured duration of a phase, in seconds.
ConfiguredSeconds(settings, p) ==
  CASE p = "work" -> settings.workDuration * 60
    [] p = "shortBreak" -> settings.shortBreakDuration * 60
    [] p = "longBreak" -> settings.longBreakDuration * 60

\* C39: when a work phase completes in tick or is skipped, workCount grows by
\* exactly 1 and the next phase is longBreak if the new workCount is a
\* multiple of longBreakInterval, shortBreak otherwise; when a break completes
\* or is skipped the next phase is work; in both cases timeLeft becomes the
\* configured duration of the next phase; and timeLeft is never negative.
C39_PhaseSuccession ==
  /\ [][ /\ (TickCompletesWork \/ SkipsWork) =>
              /\ pomodoro'.workCount = pomodoro.workCount + 1
              /\ pomodoro'.currentPhase =
                   IF \E k \in 0..pomodoro'.workCount :
                        k * pomodoro.settings.longBreakInterval = pomodoro'.workCount
                   THEN "longBreak"
                   ELSE "shortBreak"
              /\ pomodoro'.timeLeft =
                   ConfiguredSeconds(pomodoro.settings, pomodoro'.currentPhase)
         /\ (TickCompletesBreak \/ SkipsBreak) =>
              /\ pomodoro'.workCount = pomodoro.workCount
              /\ pomodoro'.currentPhase = "work"
              /\ pomodoro'.timeLeft = ConfiguredSeconds(pomodoro.settings, "work") ]_vars
  /\ [](pomodoro.timeLeft >= 0)

\* A tick has just ended the work phase that made the work count a multiple
\* of the interval: the long break begins with its whole duration.
C39_Witness ==
  /\ pomodoroTimer.lastOp = "tick"
  /\ pomodoro.currentPhase = "longBreak"
  /\ pomodoro.workCount = pomodoro.settings.longBreakInterval
  /\ pomodoro.sessions = pomodoro.workCount
  /\ pomodoro.timeLeft = pomodoro.settings.longBreakDuration * 60
  /\ pomodoro.isRunning

\* C40: under every interleaving of isSupported, extractText and cleanup
\* calls, at most one Tesseract worker exists that has been created and not
\* terminated.
C40_OneLiveWorker == Cardinality(ocr.live) <= 1

====
